---- MODULE Spec2Model ----
(***************************************************************************)
(* A model of ScenarioMax's unified-to-Waymo exporter:                     *)
(*   - process_waymo.py: process_pickle_file, process_directory,           *)
(*     merge_tfrecord_files, process_unified_to_waymo;                     *)
(*   - build_waymo_example.py: the "int(id), else hash(id) % (2**31 - 1)"   *)
(*     identifier resolution of convert_track, convert_dynamic_map_state   *)
(*     and convert_map_feature; convert_track, convert_map_feature and    *)
(*     the type converters; build_waymo_example block by block.           *)
(*                                                                         *)
(* A file name is the sequence of its dot-separated components:            *)
(* "a.pkl" is <<"a", "pkl">>, "a.b.pkl" is <<"a", "b", "pkl">>.  A string   *)
(* identifier is the sequence of its characters.  A TFRecord file is the   *)
(* sequence of its records; a record is <<source, payload>>.  A dict is   *)
(* the sequence of its <<key, value>> items where the order matters, and  *)
(* a function from its keys otherwise; a message is a record.             *)
(***************************************************************************)
EXTENDS Integers, Sequences, FiniteSets, TLC

VARIABLES
    entry,          \* the function that was called
    input_dir,      \* names of the files in the input directory
    scenario,       \* name -> what the pickle file holds
    file_pattern,   \* process_directory's file_pattern
    num_workers,    \* process_directory's num_workers
    merged_filename,\* process_unified_to_waymo's merged_filename
    hashseed,       \* process -> that interpreter's str-hash secret
    pc,             \* position of the calling process
    pickle_files,   \* glob's listing, in the order it came back
    queue,          \* the pool's call queue (submitted, not yet taken)
    future,         \* submitted file -> [state, result]
    worker,         \* worker -> [file, phase]
    yielded,        \* futures as_completed has handed out
    output_files,   \* process_directory's list
    pbar,           \* tqdm's counter
    ret,            \* what process_directory returned
    output_dir,     \* name -> content: the directory the TFRecords go to
    tfrecord_files, \* merge's listing, in the order it came back
    merge_i,        \* merge: index of the sub-file being read
    merge_j,        \* merge: index of the next record of that sub-file
    merged,         \* merge: the records written to the merged file
    id_str,         \* identifier resolution: the identifier string
    resolved,       \* identifier resolution: process -> the integer stored
    scenario_data,  \* build_waymo_example's argument
    run,            \* export: the call of build_waymo_example in progress
    waymo_scenario, \* export: call -> the message built so far / returned
    warnings,       \* export: call -> the logger.warning calls made
    track_in,       \* convert_track's arguments
    track_out,      \* convert_track's result
    feature_in,     \* convert_map_feature's arguments
    feature_out,    \* convert_map_feature's result
    mapper_in,      \* a type converter's taxonomy and argument
    mapper_out,     \* that converter's result
    unit_ret,       \* one export unit: what its function returned or raised
    scenarios,      \* postprocess_waymo's scenarios
    post_i,         \* postprocess_waymo: index of the scenario in progress
    logged          \* the logger.error calls made

batchVars == <<input_dir, scenario, file_pattern, num_workers, hashseed,
               pickle_files, queue, future, worker, yielded, output_files,
               pbar, ret>>
mergeVars == <<tfrecord_files, merge_i, merge_j, merged>>
idVars == <<id_str, resolved>>
callVars == <<mapper_in, mapper_out, unit_ret, scenarios, post_i, logged>>
exportVars == <<scenario_data, run, waymo_scenario, warnings, track_in,
                track_out, feature_in, feature_out, callVars>>
vars == <<entry, merged_filename, pc, output_dir, batchVars, mergeVars, idVars,
          exportVars>>

----------------------------------------------------------------------------
(* Bounds *)

\* most files in the input directory
MaxFiles == 2
\* largest num_workers
MaxWorkers == 2
\* hash secrets are 0..MaxSalt
MaxSalt == 1
\* most sub-files in a directory handed to merge_tfrecord_files directly
MaxTfFiles == 2
\* most records in one such sub-file
MaxRecords == 2
\* longest identifier string built from IdAlphabet
MaxIdLen == 3

----------------------------------------------------------------------------
(* Helpers *)

Range(s) == {s[i] : i \in DOMAIN s}

\* every order a directory listing of the set S can come back in
Listings(S) ==
    {s \in [1..Cardinality(S) -> S] : \A i, j \in DOMAIN s : s[i] = s[j] => i = j}

\* the multiset of a sequence's elements
BagOfSeq(s) == [x \in Range(s) |-> Cardinality({i \in DOMAIN s : s[i] = x})]

RECURSIVE SeqsUpTo(_, _)
SeqsUpTo(S, n) ==
    IF n = 0 THEN {<<>>}
    ELSE LET shorter == SeqsUpTo(S, n - 1)
         IN  shorter \cup {Append(s, x) : s \in {t \in shorter : Len(t) = n - 1}, x \in S}

None == <<"None">>

\* ret before process_directory has returned: nothing is bound yet
NotReturned == [returned |-> FALSE]
NoFile == <<>>
Salts == 0..MaxSalt

----------------------------------------------------------------------------
(* Identifier resolution: build_waymo_example.py, int(id) else hash(id) *)

\* the characters identifiers are written with, in code order
Chars == <<"0", "1", "2", "3", "4", "5", "6", "7", "8", "9",
           "-", "+", "_", " ", "a", "e", "b", "c">>
Digits == {"0", "1", "2", "3", "4", "5", "6", "7", "8", "9"}
CharCode(c) == CHOOSE i \in DOMAIN Chars : Chars[i] = c
DigitVal(c) == CharCode(c) - 1

\* the characters the enumerated identifiers draw from
IdAlphabet == {"0", "1", "7", "-", "+", "_", " ", "a"}

\* 2**31 - 1
HashModulus == 2147483647
\* the range of a signed 32-bit message field
Int32Max == 2147483647
Int32Min == -Int32Max - 1

\* identifiers at the edges of the signed 32-bit range
EdgeIds ==
    { <<"2","1","4","7","4","8","3","6","4","7">>,
      <<"-","2","1","4","7","4","8","3","6","4","8">>,
      <<"2","1","4","7","4","8","3","6","4","8">>,
      <<"-","2","1","4","7","4","8","3","6","4","9">>,
      <<"9","9","9","9","9","9","9","9","9","9","9">> }

IdStrings == SeqsUpTo(IdAlphabet, MaxIdLen) \cup EdgeIds

\* str.strip(): int() ignores leading and trailing whitespace
RECURSIVE LStrip(_)
LStrip(s) == IF s # <<>> /\ Head(s) = " " THEN LStrip(Tail(s)) ELSE s

RECURSIVE RStrip(_)
RStrip(s) ==
    IF s # <<>> /\ s[Len(s)] = " " THEN RStrip(SubSeq(s, 1, Len(s) - 1)) ELSE s

Strip(s) == RStrip(LStrip(s))

\* the digits and single underscores between digits that int() accepts
\* after the sign
WellFormedDigits(b) ==
    /\ b # <<>>
    /\ \A i \in DOMAIN b :
          \/ b[i] \in Digits
          \/ /\ b[i] = "_"
             /\ i > 1 /\ i < Len(b)
             /\ b[i - 1] \in Digits /\ b[i + 1] \in Digits

\* minus the magnitude of a digit sequence; 1 once it is below Int32Min
RECURSIVE NegMagnitude(_)
NegMagnitude(ds) ==
    IF ds = <<>> THEN 0
    ELSE LET acc == NegMagnitude(SubSeq(ds, 1, Len(ds) - 1))
             d == DigitVal(ds[Len(ds)])
         IN  IF acc = 1 THEN 1
             ELSE IF acc >= (Int32Min + d + 9) \div 10
                  THEN acc * 10 - d
                  ELSE 1

\* int(s) of a str: ok = FALSE is ValueError; big = TRUE is a value outside
\* the signed 32-bit range (Python's int is unbounded)
PyInt(s) ==
    LET t == Strip(s)
        signed == t # <<>> /\ t[1] \in {"+", "-"}
        neg == t # <<>> /\ t[1] = "-"
        body == IF signed THEN Tail(t) ELSE t
        m == NegMagnitude(SelectSeq(body, LAMBDA c : c \in Digits))
    IN  IF ~WellFormedDigits(body) THEN [ok |-> FALSE, big |-> FALSE, val |-> 0]
        ELSE IF m = 1 \/ (~neg /\ m = Int32Min)
             THEN [ok |-> TRUE, big |-> TRUE, val |-> 0]
             ELSE [ok |-> TRUE, big |-> FALSE, val |-> IF neg THEN m ELSE -m]

\* hash(s) of a str: SipHash keyed by the interpreter's per-process secret
\* (PYTHONHASHSEED, random unless set).  The mixing stands for SipHash: a
\* value that depends on every character and on the secret, of either sign.
RECURSIVE HashMix(_, _)
HashMix(s, salt) ==
    IF s = <<>> THEN salt * 40503 + 17
    ELSE (HashMix(SubSeq(s, 1, Len(s) - 1), salt) * 33 + CharCode(s[Len(s)])) % 65521

\* hash("") is 0 under every secret
PyHash(s, salt) == IF s = <<>> THEN 0 ELSE HashMix(s, salt) * 32771 - 1073741824

\* assigning to an integer field of the message raises ValueError for a value
\* outside 32 bits, inside the same try block as int()
FieldRaises(p) == p.big

IntOrHashNoModulus(s, salt) ==
    LET p == PyInt(s)
    IN  IF p.ok /\ ~FieldRaises(p) THEN p.val ELSE PyHash(s, salt)

\* try: field = int(id) / except ValueError: field = hash(id) % (2**31 - 1)
IntOrHash(s, salt) ==
    LET p == PyInt(s)
    IN  IF p.ok /\ ~FieldRaises(p) THEN p.val ELSE PyHash(s, salt) % HashModulus

\* convert_track: track.id
TrackIdDropSign(track_id, salt) ==
    LET v == IntOrHash(track_id, salt) IN IF v < 0 THEN -v ELSE v
ConvertTrackId(track_id, salt) == IntOrHash(track_id, salt)

\* convert_dynamic_map_state: lane_state.lane
LaneId(light_id, salt) == IntOrHash(light_id, salt)

\* convert_map_feature: map_feature.id
MapFeatureId(feature_id, salt) == IntOrHash(feature_id, salt)

Processes == 1..2
Unresolved == [done |-> FALSE, track |-> 0, lane |-> 0, feature |-> 0]

\* one interpreter process resolves the identifier at the three places
ResolveIn(p) ==
    /\ pc = "resolve"
    /\ ~resolved[p].done
    /\ resolved' = [resolved EXCEPT ![p] =
                      [done |-> TRUE,
                       track |-> ConvertTrackId(id_str, hashseed[p]),
                       lane |-> LaneId(id_str, hashseed[p]),
                       feature |-> MapFeatureId(id_str, hashseed[p])]]
    /\ UNCHANGED <<entry, exportVars, merged_filename, pc, output_dir, input_dir, scenario,
                   file_pattern, num_workers, hashseed, pickle_files, queue,
                   future, worker, yielded, output_files, pbar, ret, mergeVars,
                   id_str>>

IdIdle == /\ id_str = <<>>
          /\ resolved = [p \in Processes |-> Unresolved]

BatchIdle ==
    /\ input_dir = {}
    /\ scenario = <<>>
    /\ file_pattern = <<>>
    /\ num_workers = 0
    /\ pickle_files = <<>>
    /\ queue = <<>>
    /\ future = <<>>
    /\ worker = <<>>
    /\ yielded = {}
    /\ output_files = <<>>
    /\ pbar = 0
    /\ ret = NotReturned

MergeIdle ==
    /\ tfrecord_files = <<>>
    /\ merge_i = 0
    /\ merge_j = 0
    /\ merged = <<>>

CallIdle ==
    /\ mapper_in = <<>>
    /\ mapper_out = <<>>
    /\ unit_ret = <<>>
    /\ scenarios = <<>>
    /\ post_i = 0
    /\ logged = <<>>

ExportIdle ==
    /\ scenario_data = <<>>
    /\ run = 0
    /\ waymo_scenario = <<>>
    /\ warnings = <<>>
    /\ track_in = <<>>
    /\ track_out = <<>>
    /\ feature_in = <<>>
    /\ feature_out = <<>>
    /\ CallIdle

InitId ==
    /\ entry = "resolve"
    /\ pc = "resolve"
    /\ id_str \in IdStrings
    /\ hashseed \in [Processes -> Salts]
    /\ resolved = [p \in Processes |-> Unresolved]
    /\ merged_filename = None
    /\ output_dir = <<>>
    /\ BatchIdle /\ MergeIdle /\ ExportIdle

NextId == \E p \in Processes : ResolveIn(p)

SpecId == InitId /\ [][NextId]_vars

----------------------------------------------------------------------------
(* The batch pipeline: process_waymo.py *)

PklPattern == <<"*", "pkl">>
AnyPattern == <<"*">>
TfrecordPattern == <<"*", "tfrecord">>

\* the names an input directory is populated from
FileNames == { <<"a", "pkl">>, <<"a", "pickle">>, <<"b", "v2", "pkl">> }

\* what unpickling and exporting a file does
Outcomes == {"ok", "load_raises", "build_raises", "write_raises"}

\* glob.glob(os.path.join(dir, pattern)): "*" matches every name, "*.ext"
\* the names whose last component is ext
GlobMatches(name, pattern) ==
    IF pattern = AnyPattern THEN TRUE
    ELSE Len(name) >= 2 /\ name[Len(name)] = pattern[2]

\* os.path.splitext(base_name)[0]: the name without its last extension
SplitExtRoot(base_name) ==
    IF Len(base_name) >= 2 THEN SubSeq(base_name, 1, Len(base_name) - 1)
    ELSE base_name

\* os.path.join(output_dir, f"{file_name}.tfrecord")
OutputFile(pickle_file) == Append(SplitExtRoot(pickle_file), "tfrecord")

\* the one record write_to_tfrecord writes: the scenario built from the
\* file, its track id resolved in the worker's interpreter
Export(pickle_file, sc, salt) == <<pickle_file, ConvertTrackId(sc.track_id, salt)>>

\* a record that cannot be read back
Corrupt == << <<"corrupt">>, 0 >>

\* a directory with file `name` holding `content`
Put(dir, name, content) ==
    [n \in DOMAIN dir \cup {name} |-> IF n = name THEN content ELSE dir[n]]

Pending == [state |-> "PENDING", result |-> <<>>]
Idle == [file |-> NoFile, phase |-> "idle"]
Workers == 1..num_workers

\* the except branch of process_pickle_file: return ""
ExceptReturnsText == <<"error">>
ExceptResult == <<>>

\* the unit's state in the spec's words
UnitState(f) ==
    IF future[f].state = "PENDING" THEN "Pending"
    ELSE IF future[f].state = "RUNNING" THEN "Running"
    ELSE IF future[f].result # <<>> THEN "Succeeded"
    ELSE "Failed"

\* process_directory, up to the listing
Glob ==
    /\ pc = "glob"
    /\ \E listing \in Listings({f \in input_dir : GlobMatches(f, file_pattern)}) :
          pickle_files' = listing
    /\ pc' = "submit"
    /\ UNCHANGED <<entry, exportVars, merged_filename, output_dir, input_dir, scenario,
                   file_pattern, num_workers, hashseed, queue, future, worker,
                   yielded, output_files, pbar, ret, mergeVars, idVars>>

\* output_files = [] and the dict comprehension: one task per listed file
Submit ==
    /\ pc = "submit"
    /\ queue' = pickle_files
    /\ future' = [f \in Range(pickle_files) |-> Pending]
    /\ output_files' = <<>>
    /\ pc' = "as_completed"
    /\ UNCHANGED <<entry, exportVars, merged_filename, output_dir, input_dir, scenario,
                   file_pattern, num_workers, hashseed, pickle_files, worker,
                   yielded, pbar, ret, mergeVars, idVars>>

\* a free worker process takes the next call off the pool's queue
TakeTask(w) ==
    /\ pc = "as_completed"
    /\ worker[w] = Idle
    /\ queue # <<>>
    /\ worker' = [worker EXCEPT ![w] = [file |-> Head(queue), phase |-> "load"]]
    /\ future' = [future EXCEPT ![Head(queue)].state = "RUNNING"]
    /\ queue' = Tail(queue)
    /\ UNCHANGED <<entry, exportVars, merged_filename, pc, output_dir, input_dir, scenario,
                   file_pattern, num_workers, hashseed, pickle_files, yielded,
                   output_files, pbar, ret, mergeVars, idVars>>

\* the worker after its call returned: the process stays in the pool
WorkerAfterCall(w) == [worker EXCEPT ![w] = Idle]

\* the worker after "except Exception": the call returns like any other
WorkerLostOnExcept(w) == [worker EXCEPT ![w] = [file |-> NoFile, phase |-> "dead"]]
WorkerAfterExcept(w) == WorkerAfterCall(w)

FinishedEveryRunning(f, result) ==
    [g \in DOMAIN future |->
        IF future[g].state = "RUNNING"
        THEN [state |-> "FINISHED", result |-> result]
        ELSE future[g]]

\* the call's return value reaches its future
Finished(f, result) ==
    [future EXCEPT ![f] = [state |-> "FINISHED", result |-> result]]

\* process_pickle_file: pickle.load and build_waymo_example
LoadAndBuild(w) ==
    LET f == worker[w].file IN
    /\ worker[w].phase = "load"
    /\ IF scenario[f].outcome \in {"load_raises", "build_raises"}
       THEN /\ future' = Finished(f, ExceptResult)
            /\ worker' = WorkerAfterExcept(w)
       ELSE /\ worker' = [worker EXCEPT ![w].phase = "open"]
            /\ UNCHANGED future
    /\ UNCHANGED <<entry, exportVars, merged_filename, pc, output_dir, input_dir, scenario,
                   file_pattern, num_workers, hashseed, pickle_files, queue,
                   yielded, output_files, pbar, ret, mergeVars, idVars>>

\* write_to_tfrecord: TFRecordWriter(output_path) creates or truncates
OpenWriter(w) ==
    LET f == worker[w].file IN
    /\ worker[w].phase = "open"
    /\ output_dir' = Put(output_dir, OutputFile(f), <<>>)
    /\ worker' = [worker EXCEPT ![w].phase = "write"]
    /\ UNCHANGED <<entry, exportVars, merged_filename, pc, input_dir, scenario,
                   file_pattern, num_workers, hashseed, pickle_files, queue,
                   future, yielded, output_files, pbar, ret, mergeVars, idVars>>

\* write_to_tfrecord: writer.write(...) and close, then return output_file;
\* a write that raises may leave nothing or a truncated record behind
WriteRecord(w) ==
    LET f == worker[w].file IN
    /\ worker[w].phase = "write"
    /\ IF scenario[f].outcome = "write_raises"
       THEN /\ \E left \in {<<>>, <<Corrupt>>} :
                  output_dir' = Put(output_dir, OutputFile(f), left)
            /\ future' = Finished(f, ExceptResult)
            /\ worker' = WorkerAfterExcept(w)
       ELSE /\ output_dir' =
                  Put(output_dir, OutputFile(f), <<Export(f, scenario[f], hashseed[w])>>)
            /\ future' = Finished(f, OutputFile(f))
            /\ worker' = WorkerAfterCall(w)
    /\ UNCHANGED <<entry, exportVars, merged_filename, pc, input_dir, scenario,
                   file_pattern, num_workers, hashseed, pickle_files, queue,
                   yielded, output_files, pbar, ret, mergeVars, idVars>>

\* if output_file: output_files.append(output_file)
CollectedAlways(out, result) == Append(out, result)
CollectedLast(out, result) == IF result # <<>> THEN <<result>> ELSE out
Collected(out, result) == IF result # <<>> THEN Append(out, result) ELSE out

\* one round of the as_completed loop
Collect ==
    /\ pc = "as_completed"
    /\ \E f \in DOMAIN future \ yielded :
          /\ future[f].state = "FINISHED"
          /\ yielded' = yielded \cup {f}
          /\ output_files' = Collected(output_files, future[f].result)
    /\ pbar' = pbar + 1
    /\ UNCHANGED <<entry, exportVars, merged_filename, pc, output_dir, input_dir, scenario,
                   file_pattern, num_workers, hashseed, pickle_files, queue,
                   future, worker, ret, mergeVars, idVars>>

MergeRequestedUnlessNone == merged_filename # None

\* "if merged_filename:": neither None nor the empty string
MergeRequested == merged_filename # None /\ merged_filename # <<>>

\* what process_directory hands back
ReturnValue == [output_files |-> output_files]

\* as_completed is exhausted: the pool shuts down, process_directory returns;
\* process_unified_to_waymo then merges if a merged file name was given
Return ==
    /\ pc = "as_completed"
    /\ yielded = DOMAIN future
    /\ ret' = ReturnValue
    /\ pc' = IF entry = "process_unified_to_waymo" /\ MergeRequested
             THEN "merge_glob"
             ELSE "done"
    /\ UNCHANGED <<entry, exportVars, merged_filename, output_dir, input_dir, scenario,
                   file_pattern, num_workers, hashseed, pickle_files, queue,
                   future, worker, yielded, output_files, pbar, mergeVars, idVars>>

\* numeric track ids: the hash secret is not read
DirScenarios == [outcome : Outcomes, track_id : {<<"7">>}]

BatchStart ==
    /\ pc = "glob"
    /\ num_workers \in 1..MaxWorkers
    /\ worker = [w \in 1..num_workers |-> Idle]
    /\ pickle_files = <<>>
    /\ queue = <<>>
    /\ future = <<>>
    /\ yielded = {}
    /\ output_files = <<>>
    /\ pbar = 0
    /\ ret = NotReturned

\* process_directory(input_dir, output_dir, num_workers, file_pattern)
Init ==
    /\ entry = "process_directory"
    /\ input_dir \in {d \in SUBSET FileNames : Cardinality(d) <= MaxFiles}
    /\ scenario \in [input_dir -> DirScenarios]
    /\ file_pattern \in {PklPattern, AnyPattern}
    /\ BatchStart
    /\ hashseed = [w \in 1..num_workers |-> 0]
    /\ merged_filename = None
    /\ output_dir = <<>>
    /\ MergeIdle /\ IdIdle /\ ExportIdle

WorkerStep(w) ==
    \/ TakeTask(w)
    \/ LoadAndBuild(w)
    \/ OpenWriter(w)
    \/ WriteRecord(w)

Next ==
    \/ Glob
    \/ Submit
    \/ \E w \in Workers : WorkerStep(w)
    \/ Collect
    \/ Return

Spec == Init /\ [][Next]_vars

\* the operating system keeps running the processes: a step that stays
\* possible is eventually taken
FairSpec ==
    /\ Spec
    /\ WF_vars(Next)

----------------------------------------------------------------------------
(* merge_tfrecord_files and process_unified_to_waymo *)

\* glob of "*.tfrecord" and TFRecordWriter(output_file)
MergeGlob ==
    /\ pc = "merge_glob"
    /\ \E listing \in Listings({n \in DOMAIN output_dir : GlobMatches(n, TfrecordPattern)}) :
          tfrecord_files' = listing
    /\ merged' = <<>>
    /\ merge_i' = 1
    /\ merge_j' = 1
    /\ pc' = "merge_loop"
    /\ UNCHANGED <<entry, exportVars, merged_filename, output_dir, batchVars, idVars>>

\* one round of "for record in TFRecordDataset([tfrecord_file])": the next
\* record is written, or the sub-file ends, or reading raises and the except
\* branch moves on to the next sub-file
MergeRead ==
    /\ pc = "merge_loop"
    /\ merge_i <= Len(tfrecord_files)
    /\ LET content == output_dir[tfrecord_files[merge_i]] IN
       IF merge_j <= Len(content) /\ content[merge_j] # Corrupt
       THEN /\ merged' = Append(merged, content[merge_j])
            /\ merge_j' = merge_j + 1
            /\ UNCHANGED merge_i
       ELSE /\ merge_i' = merge_i + 1
            /\ merge_j' = 1
            /\ UNCHANGED merged
    /\ UNCHANGED <<entry, exportVars, merged_filename, pc, output_dir, tfrecord_files,
                   batchVars, idVars>>

\* the outer loop is exhausted: the writer is closed
MergeDone ==
    /\ pc = "merge_loop"
    /\ merge_i > Len(tfrecord_files)
    /\ pc' = "done"
    /\ UNCHANGED <<entry, exportVars, merged_filename, output_dir, batchVars, mergeVars, idVars>>

NextMerge == MergeGlob \/ MergeRead \/ MergeDone

\* the sub-files a directory handed to merge_tfrecord_files may hold
TfStems == <<"a", "b", "c", "d">>
TfNames == {<<TfStems[i], "tfrecord">> : i \in 1..MaxTfFiles}
OtherName == <<"notes", "txt">>

\* a sub-file of up to MaxRecords records, any of them unreadable
TfContents(n) ==
    {s \in SeqsUpTo({<<n, k>> : k \in 1..MaxRecords} \cup {Corrupt}, MaxRecords) :
        \A k \in DOMAIN s : s[k] \in {<<n, k>>, Corrupt}}

TfDirectories ==
    UNION {[S -> UNION {TfContents(n) : n \in S} \cup {<<>>}] : S \in SUBSET (TfNames \cup {OtherName})}

\* merge_tfrecord_files(input_dir, output_file)
InitMerge ==
    /\ entry = "merge_tfrecord_files"
    /\ pc = "merge_glob"
    /\ output_dir \in {d \in TfDirectories :
                          \A n \in DOMAIN d :
                             IF n = OtherName THEN d[n] = <<>> ELSE d[n] \in TfContents(n)}
    /\ merged_filename = <<"merged", "tfrecord">>
    /\ hashseed = <<>>
    /\ BatchIdle /\ MergeIdle /\ IdIdle /\ ExportIdle

SpecMerge == InitMerge /\ [][NextMerge]_vars

\* what a file holds under process_unified_to_waymo: a scenario with a
\* numeric or a non-numeric track id, or one that fails
PipeScenarios ==
    [outcome : {"ok"}, track_id : {<<"7">>, <<"a">>}]
    \cup [outcome : Outcomes \ {"ok"}, track_id : {<<"7">>}]

\* the record an earlier run left behind for a file
StaleRecord(f) == Export(f, [outcome |-> "ok", track_id |-> <<"0">>], 0)

\* <output_dir>/temp as earlier runs may have left it
TempDirs ==
    { <<>>,
      Put(<<>>, OutputFile(<<"a", "pkl">>), <<StaleRecord(<<"a", "pkl">>)>>),
      Put(<<>>, OutputFile(<<"old", "pkl">>), <<StaleRecord(<<"old", "pkl">>)>>) }

\* process_unified_to_waymo(input_dir, output_dir, num_workers, merged_filename):
\* process_directory runs with the default file_pattern into <output_dir>/temp
InitPipeline ==
    /\ entry = "process_unified_to_waymo"
    /\ input_dir \in {d \in SUBSET FileNames : Cardinality(d) <= MaxFiles}
    /\ scenario \in [input_dir -> PipeScenarios]
    /\ file_pattern = PklPattern
    /\ BatchStart
    /\ hashseed \in [1..num_workers -> Salts]
    /\ merged_filename \in {None, <<>>, <<"merged", "tfrecord">>}
    /\ output_dir \in TempDirs
    /\ MergeIdle /\ IdIdle /\ ExportIdle

NextPipeline == Next \/ NextMerge

SpecPipeline == InitPipeline /\ [][NextPipeline]_vars

----------------------------------------------------------------------------
(* Claims about process_directory, under Spec and FairSpec *)

Discovered == {f \in input_dir : GlobMatches(f, file_pattern)}
WellFormed(f) == scenario[f].outcome = "ok"
Terminal(f) == UnitState(f) \in {"Succeeded", "Failed"}
NumFailed == Cardinality({f \in DOMAIN future : UnitState(f) = "Failed"})

\* the output locations of a set of files, one per file, as a multiset
OutputBag(files) ==
    [o \in {OutputFile(f) : f \in files} |->
        Cardinality({f \in files : OutputFile(f) = o})]

C2_ForwardProgress ==
    <>[](pc = "done" /\ DOMAIN future = Discovered /\ \A f \in Discovered : Terminal(f))

\* C2's case: a unit has failed on the only worker while another is pending
C2_Witness ==
    /\ num_workers = 1
    /\ \E f, g \in DOMAIN future :
          UnitState(f) = "Failed" /\ UnitState(g) = "Pending"

\* C3 as stated: the result carries the succeeded locations and a count of
\* the failed units.
C3_ResultCarriesFailureCount ==
    pc = "done"
    => /\ "failed" \in DOMAIN ret
       /\ ret.failed = NumFailed
       /\ Len(ret.output_files) + ret.failed = Cardinality(Discovered)

\* C3 amended: the result is the list of the succeeded units' locations and
\* nothing else; the number of failed units is the number of discovered files
\* minus the length of that list.
C3_ResultIsSucceededList ==
    pc = "done"
    => /\ DOMAIN ret = {"output_files"}
       /\ BagOfSeq(ret.output_files) =
             OutputBag({f \in Discovered : UnitState(f) = "Succeeded"})
       /\ NumFailed = Cardinality(Discovered) - Len(ret.output_files)

\* C3's case: a run that returned with one unit Succeeded and one Failed
C3_Witness ==
    /\ pc = "done"
    /\ NumFailed = 1
    /\ Len(ret.output_files) = 1

\* C4: the set of returned locations and the set of files in the output
\* directory are functions of the input files and their outcomes alone.
C4_CompletionOrderIndependence ==
    pc = "done"
    => /\ Range(ret.output_files) = {OutputFile(f) : f \in {g \in Discovered : WellFormed(g)}}
       /\ DOMAIN output_dir =
             {OutputFile(f) : f \in {g \in Discovered :
                                       scenario[g].outcome \in {"ok", "write_raises"}}}

\* C4's case: two units completed in the reverse of their submission order
C4_Witness ==
    /\ pc = "done"
    /\ Len(pickle_files) = 2
    /\ Len(ret.output_files) = 2
    /\ ret.output_files[1] = OutputFile(pickle_files[2])
    /\ ret.output_files[1] # ret.output_files[2]

\* C5: no two distinct discovered files are given the same output path.
C5_OutputPathsInjective ==
    \A f, g \in Range(pickle_files) : f # g => OutputFile(f) # OutputFile(g)

----------------------------------------------------------------------------
(* Claims about the merge, under SpecMerge and SpecPipeline *)

\* the sub-files whose reading raises
Unreadable(n) == \E k \in DOMAIN output_dir[n] : output_dir[n][k] = Corrupt
RecordsOf(n) == Range(output_dir[n]) \ {Corrupt}

\* C6: none of the records of a sub-file whose reading failed are in the
\* merged output, and every record of every readable sub-file is.
C6_ReadFailureIsolation ==
    pc = "done"
    => \A n \in Range(tfrecord_files) :
          IF Unreadable(n)
          THEN RecordsOf(n) \cap Range(merged) = {}
          ELSE RecordsOf(n) \subseteq Range(merged)

\* the records of the scenarios exported one at a time in an interpreter
\* with hash secret `salt`, as a multiset
ExportedOneByOne(salt) ==
    [r \in {Export(f, scenario[f], salt) : f \in {g \in Discovered : WellFormed(g)}} |-> 1]

\* every file in <output_dir>/temp was written by this run
TempIsFresh ==
    DOMAIN output_dir \subseteq
        {OutputFile(f) : f \in {g \in Discovered :
                                  scenario[g].outcome \in {"ok", "write_raises"}}}

\* C7: the merged file holds the same multiset of records as exporting the
\* same scenarios one at a time, in whatever interpreter that is done; here
\* even for the runs that find nothing of an earlier run in the temp directory.
C7_MergeEquivalence ==
    (entry = "process_unified_to_waymo" /\ pc = "done" /\ MergeRequested
        /\ TempIsFresh)
    => \A salt \in Salts : BagOfSeq(merged) = ExportedOneByOne(salt)

\* names in sorted order: a < b < c < d
StemRank(n) == CHOOSE i \in DOMAIN TfStems : TfStems[i] = n[1]
SortedListing(S) ==
    CHOOSE s \in Listings(S) :
        \A i, j \in DOMAIN s : i < j => StemRank(s[i]) < StemRank(s[j])

\* the readable prefix of a sub-file
RECURSIVE ReadablePrefix(_)
ReadablePrefix(content) ==
    IF content = <<>> \/ Head(content) = Corrupt THEN <<>>
    ELSE <<Head(content)>> \o ReadablePrefix(Tail(content))

RECURSIVE MergeOf(_)
MergeOf(listing) ==
    IF listing = <<>> THEN <<>>
    ELSE ReadablePrefix(output_dir[Head(listing)]) \o MergeOf(Tail(listing))

\* C8: the merged record sequence is the one the sub-files give in sorted
\* name order, whatever order the directory listing came back in.
C8_MergeOrderByName ==
    pc = "done" => merged = MergeOf(SortedListing(Range(tfrecord_files)))

----------------------------------------------------------------------------
(* Claims about identifier resolution, under SpecId *)

\* a plain base-10 integer literal: an optional sign and one or more digits
IsDecimalLiteral(s) ==
    LET body == IF s # <<>> /\ s[1] \in {"+", "-"} THEN Tail(s) ELSE s
    IN  body # <<>> /\ \A i \in DOMAIN body : body[i] \in Digits

RECURSIVE StripZeros(_)
StripZeros(ds) == IF Len(ds) > 1 /\ ds[1] = "0" THEN StripZeros(Tail(ds)) ELSE ds

\* a <= b for digit sequences of one length
RECURSIVE DigitsLeq(_, _)
DigitsLeq(a, b) ==
    \/ a = <<>>
    \/ DigitVal(a[1]) < DigitVal(b[1])
    \/ a[1] = b[1] /\ DigitsLeq(Tail(a), Tail(b))

Int32MaxDigits == <<"2","1","4","7","4","8","3","6","4","7">>
Int32MinDigits == <<"2","1","4","7","4","8","3","6","4","8">>

\* the literal's integer lies in [-2^31, 2^31 - 1]
LiteralInInt32(s) ==
    LET neg == s[1] = "-"
        ds == StripZeros(IF s[1] \in {"+", "-"} THEN Tail(s) ELSE s)
    IN  \/ Len(ds) < 10
        \/ Len(ds) = 10 /\ DigitsLeq(ds, IF neg THEN Int32MinDigits ELSE Int32MaxDigits)

RECURSIVE Pow10(_)
Pow10(k) == IF k = 0 THEN 1 ELSE 10 * Pow10(k - 1)

\* sign * (d_1 * 10^(k-1) + ... + d_k), summed from the left, signed
RECURSIVE SignedSum(_, _)
SignedSum(ds, sign) ==
    IF ds = <<>> THEN 0
    ELSE sign * DigitVal(ds[1]) * Pow10(Len(ds) - 1) + SignedSum(Tail(ds), sign)

LiteralValue(s) ==
    LET neg == s[1] = "-"
        ds == StripZeros(IF s[1] \in {"+", "-"} THEN Tail(s) ELSE s)
    IN  SignedSum(ds, IF neg THEN -1 ELSE 1)

\* C9: an identifier string that is a base-10 integer literal of an n within
\* the signed 32-bit range is stored as n, as a track id, as a traffic-light
\* lane id and as a map-feature id.
C9_NumericIdResolvesToValue ==
    \A p \in Processes :
        (resolved[p].done /\ IsDecimalLiteral(id_str) /\ LiteralInInt32(id_str))
        => /\ resolved[p].track = LiteralValue(id_str)
           /\ resolved[p].lane = LiteralValue(id_str)
           /\ resolved[p].feature = LiteralValue(id_str)

\* C9's case: the most negative 32-bit literal has been resolved
C9_Witness ==
    /\ id_str = <<"-","2","1","4","7","4","8","3","6","4","8">>
    /\ resolved[1].done
    /\ resolved[1].track = Int32Min

\* C10: a non-numeric identifier resolves to the same integer in every
\* process, whatever the processes' hash secrets.
C10_HashedIdStableAcrossProcesses ==
    \A p, q \in Processes :
        (resolved[p].done /\ resolved[q].done /\ ~PyInt(id_str).ok)
        => resolved[p] = resolved[q]

----------------------------------------------------------------------------
(* The scenario codec: build_waymo_example.py *)

\* most states of one track (track_length and the arrays' length)
MaxTrackLen == 2
\* most tracks of one scenario
MaxTracks == 3
\* most timesteps of one scenario
MaxSteps == 2
\* most geometry points of one map feature
MaxPoints == 2
\* most map features of one scenario
MaxFeatures == 2

\* A Python dict is the sequence of its <<key, value>> items in iteration
\* (insertion) order; its keys are distinct.
Keys(d) == {d[i][1] : i \in DOMAIN d}
IsDict(d) == \A i, j \in DOMAIN d : d[i][1] = d[j][1] => i = j

\* the canonical type tokens of ScenarioType
VEHICLE == "VEHICLE"
PEDESTRIAN == "PEDESTRIAN"
CYCLIST == "CYCLIST"
STOP_SIGN == "STOP_SIGN"
CROSSWALK == "CROSSWALK"

convert_object_type(type_str) ==
    IF type_str = VEHICLE THEN "TYPE_VEHICLE"
    ELSE IF type_str = PEDESTRIAN THEN "TYPE_PEDESTRIAN"
    ELSE IF type_str = CYCLIST THEN "TYPE_CYCLIST"
    ELSE "TYPE_OTHER"

TrafficLightTokens ==
    {"UNKNOWN", "ARROW_STOP", "ARROW_CAUTION", "ARROW_GO", "STOP", "CAUTION",
     "GO", "FLASHING_STOP", "FLASHING_CAUTION"}

\* every recognised token maps to the code of the same name
convert_traffic_light_state(state_val) ==
    IF state_val \in TrafficLightTokens THEN state_val ELSE "UNKNOWN"

ConvertLaneTypeNoElse(lane_type) ==
    IF lane_type = "UNKNOWN" THEN "LANE_TYPE_UNDEFINED"
    ELSE IF lane_type = "FREEWAY" THEN "FREEWAY"
    ELSE IF lane_type = "SURFACE_STREET" THEN "SURFACE_STREET"
    ELSE IF lane_type = "BIKE_LANE" THEN "BIKE_LANE"
    ELSE lane_type

convert_lane_type(lane_type) ==
    IF lane_type = "UNKNOWN" THEN "LANE_TYPE_UNDEFINED"
    ELSE IF lane_type = "FREEWAY" THEN "FREEWAY"
    ELSE IF lane_type = "SURFACE_STREET" THEN "SURFACE_STREET"
    ELSE IF lane_type = "BIKE_LANE" THEN "BIKE_LANE"
    ELSE "LANE_TYPE_UNDEFINED"

RoadLineTokens ==
    {"BROKEN_SINGLE_WHITE", "SOLID_SINGLE_WHITE", "SOLID_DOUBLE_WHITE",
     "BROKEN_SINGLE_YELLOW", "BROKEN_DOUBLE_YELLOW", "SOLID_SINGLE_YELLOW",
     "SOLID_DOUBLE_YELLOW", "PASSING_DOUBLE_YELLOW"}

convert_road_line_type(line_type) ==
    IF line_type \in RoadLineTokens THEN line_type ELSE "TYPE_UNDEFINED"

RoadEdgeTokens == {"BOUNDARY_UNKNOWN", "ROAD_EDGE_BOUNDARY", "ROAD_EDGE_MEDIAN"}

convert_road_edge_type(edge_type) ==
    IF edge_type \in RoadEdgeTokens THEN edge_type ELSE "TYPE_UNDEFINED"

\* a call that raised: no value comes back
Raised == [raised |-> TRUE]
Returned(v) == [raised |-> FALSE, value |-> v]

\* scenario_pb2.ObjectState(): every field at its default
ObjectState ==
    [center_x |-> 0, center_y |-> 0, center_z |-> 0,
     length |-> 0, width |-> 0, height |-> 0, heading |-> 0,
     velocity_x |-> 0, velocity_y |-> 0, valid |-> FALSE]

ConvertStateInvalidKeepsValues(state_data, i) ==
    [center_x |-> state_data.position[i][1],
     center_y |-> state_data.position[i][2],
     center_z |-> state_data.position[i][3],
     length |-> state_data.length[i],
     width |-> state_data.width[i],
     height |-> state_data.height[i],
     heading |-> state_data.heading[i],
     velocity_x |-> state_data.velocity[i][1],
     velocity_y |-> state_data.velocity[i][2],
     valid |-> state_data.valid[i]]

\* one pass of convert_track's loop; float() keeps a number's value
ConvertState(state_data, i) ==
    IF ~state_data.valid[i]
    THEN [ObjectState EXCEPT !.valid = FALSE]
    ELSE [center_x |-> state_data.position[i][1],
          center_y |-> state_data.position[i][2],
          center_z |-> state_data.position[i][3],
          length |-> state_data.length[i],
          width |-> state_data.width[i],
          height |-> state_data.height[i],
          heading |-> state_data.heading[i],
          velocity_x |-> state_data.velocity[i][1],
          velocity_y |-> state_data.velocity[i][2],
          valid |-> TRUE]

\* the arrays a valid state is read from
StateArrays == {"position", "length", "width", "height", "heading", "velocity"}

\* indexing past the end of an array raises IndexError
StateRaises(state_data, i) ==
    \/ i > Len(state_data.valid)
    \/ /\ state_data.valid[i]
       /\ \E a \in StateArrays : i > Len(state_data[a])

convert_track(track_id, track_data, salt) ==
    LET track_length == track_data.metadata.track_length
        state_data == track_data.state
    IN  IF \E i \in 1..track_length : StateRaises(state_data, i)
        THEN Raised
        ELSE Returned([id |-> ConvertTrackId(track_id, salt),
                       object_type |-> convert_object_type(track_data.type),
                       states |-> [i \in 1..track_length |->
                                     ConvertState(state_data, i)]])

RECURSIVE LaneStatesNoLengthTest(_, _, _)
LaneStatesNoLengthTest(items, time_index, salt) ==
    IF items = <<>> THEN <<>>
    ELSE LET light_id == Head(items)[1]
             light_states == Head(items)[2]
             rest == LaneStatesNoLengthTest(Tail(items), time_index, salt)
         IN  << [lane |-> LaneId(light_id, salt),
                 state |-> IF time_index < Len(light_states.state)
                           THEN convert_traffic_light_state(
                                    light_states.state[time_index + 1])
                           ELSE "UNKNOWN"] >> \o rest

\* the lane states convert_dynamic_map_state appends, over the items of
\* traffic_light_states in iteration order; time_index counts from 0
RECURSIVE LaneStates(_, _, _)
LaneStates(items, time_index, salt) ==
    IF items = <<>> THEN <<>>
    ELSE LET light_id == Head(items)[1]
             light_states == Head(items)[2]
             rest == LaneStates(Tail(items), time_index, salt)
         IN  IF time_index < Len(light_states.state)
             THEN << [lane |-> LaneId(light_id, salt),
                      state |-> convert_traffic_light_state(
                                    light_states.state[time_index + 1])] >> \o rest
             ELSE rest

convert_dynamic_map_state(dynamic_map_states, time_index, salt) ==
    [lane_states |->
        IF "traffic_light_states" \in DOMAIN dynamic_map_states
        THEN LaneStates(dynamic_map_states.traffic_light_states, time_index, salt)
        ELSE <<>>]

\* dict.get(key, default)
Get(d, key, default) == IF key \in DOMAIN d THEN d[key] ELSE default

\* a MapPoint from a polyline or polygon point: z only from a third coordinate
MapPoint(point) ==
    IF Len(point) > 2
    THEN [x |-> point[1], y |-> point[2], z |-> point[3]]
    ELSE [x |-> point[1], y |-> point[2]]

\* point[0], point[1] raise IndexError on a shorter point
PointsRaise(points) == \E i \in DOMAIN points : Len(points[i]) < 2

\* the loop over feature_data[key], when the key is there
Polyline(feature_data, key) ==
    IF key \in DOMAIN feature_data
    THEN [i \in DOMAIN feature_data[key] |-> MapPoint(feature_data[key][i])]
    ELSE <<>>

PolylineRaises(feature_data, key) ==
    key \in DOMAIN feature_data /\ PointsRaise(feature_data[key])

\* a message field is populated only where the code assigns it; str() of a
\* str is that str
convert_lane_boundary(boundary) ==
    [k \in {"boundary_feature_id", "boundary_type"} \cap DOMAIN boundary |->
        IF k = "boundary_type"
        THEN convert_road_line_type(boundary[k])
        ELSE boundary[k]]

convert_lane_neighbor(neighbor) ==
    LET both(a, b) == IF {a, b} \subseteq DOMAIN neighbor THEN {a, b} ELSE {}
    IN  [k \in ({"feature_id"} \cap DOMAIN neighbor)
               \cup both("self_start_index", "self_end_index")
               \cup both("neighbor_start_index", "neighbor_end_index") |->
            neighbor[k]]

Converted(items, Op(_)) == [i \in DOMAIN items |-> Op(items[i])]

Lane(feature_data) ==
    [speed_limit_mph |-> Get(feature_data, "speed_limit_mph", 0),
     type |-> convert_lane_type(Get(feature_data, "type", "")),
     polyline |-> Polyline(feature_data, "polyline"),
     interpolating |-> Get(feature_data, "interpolating", FALSE),
     entry_lanes |-> Get(feature_data, "entry_lanes", <<>>),
     exit_lanes |-> Get(feature_data, "exit_lanes", <<>>),
     left_boundaries |->
        Converted(Get(feature_data, "left_boundaries", <<>>), convert_lane_boundary),
     right_boundaries |->
        Converted(Get(feature_data, "right_boundaries", <<>>), convert_lane_boundary),
     left_neighbors |->
        Converted(Get(feature_data, "left_neighbor", <<>>), convert_lane_neighbor),
     right_neighbors |->
        Converted(Get(feature_data, "right_neighbor", <<>>), convert_lane_neighbor)]

RoadLine(feature_data) ==
    [type |-> convert_road_line_type(Get(feature_data, "type", "")),
     polyline |-> Polyline(feature_data, "polyline")]

RoadEdge(feature_data) ==
    [type |-> convert_road_edge_type(Get(feature_data, "type", "")),
     polyline |-> Polyline(feature_data, "polyline")]

\* position[0], position[1], position[2] are all read
StopSign(feature_data) ==
    [k \in {"position"} \cap DOMAIN feature_data |->
        [x |-> feature_data.position[1],
         y |-> feature_data.position[2],
         z |-> feature_data.position[3]]]
    @@ [lane |-> Get(feature_data, "lane", <<>>)]

StopSignRaises(feature_data) ==
    "position" \in DOMAIN feature_data /\ Len(feature_data.position) < 3

Crosswalk(feature_data) == [polygon |-> Polyline(feature_data, "polygon")]

\* Python's None
PyNone == [none |-> TRUE]

\* the branch convert_map_feature's if/elif chain takes
TypeFirstVariant(feature_data) ==
    LET feature_type == Get(feature_data, "type", "")
    IN  IF feature_type \in RoadLineTokens THEN "road_line"
        ELSE IF feature_type \in RoadEdgeTokens THEN "road_edge"
        ELSE IF feature_type = STOP_SIGN THEN "stop_sign"
        ELSE IF feature_type = CROSSWALK THEN "crosswalk"
        ELSE IF "speed_limit_mph" \in DOMAIN feature_data THEN "lane"
        ELSE "None"

Variant(feature_data) ==
    LET feature_type == Get(feature_data, "type", "")
    IN  IF "speed_limit_mph" \in DOMAIN feature_data THEN "lane"
        ELSE IF feature_type \in RoadLineTokens THEN "road_line"
        ELSE IF feature_type \in RoadEdgeTokens THEN "road_edge"
        ELSE IF feature_type = STOP_SIGN THEN "stop_sign"
        ELSE IF feature_type = CROSSWALK THEN "crosswalk"
        ELSE "None"

VariantValue(feature_data, v) ==
    CASE v = "lane" -> Lane(feature_data)
      [] v = "road_line" -> RoadLine(feature_data)
      [] v = "road_edge" -> RoadEdge(feature_data)
      [] v = "stop_sign" -> StopSign(feature_data)
      [] v = "crosswalk" -> Crosswalk(feature_data)

VariantRaises(feature_data, v) ==
    CASE v \in {"lane", "road_line", "road_edge"} ->
            PolylineRaises(feature_data, "polyline")
      [] v = "stop_sign" -> StopSignRaises(feature_data)
      [] v = "crosswalk" -> PolylineRaises(feature_data, "polygon")
      [] OTHER -> FALSE

\* every variant whose own test the descriptor passes
MatchingVariants(feature_data) ==
    LET feature_type == Get(feature_data, "type", "")
    IN  (IF "speed_limit_mph" \in DOMAIN feature_data THEN {"lane"} ELSE {})
        \cup (IF feature_type \in RoadLineTokens THEN {"road_line"} ELSE {})
        \cup (IF feature_type \in RoadEdgeTokens THEN {"road_edge"} ELSE {})
        \cup (IF feature_type = STOP_SIGN THEN {"stop_sign"} ELSE {})
        \cup (IF feature_type = CROSSWALK THEN {"crosswalk"} ELSE {})

ConvertMapFeatureEveryMatch(feature_id, feature_data, salt) ==
    LET vs == MatchingVariants(feature_data)
    IN  IF \E v \in vs : VariantRaises(feature_data, v) THEN Raised
        ELSE IF vs = {} THEN Returned(PyNone)
        ELSE Returned([k \in {"id"} \cup vs |->
                          IF k = "id" THEN MapFeatureId(feature_id, salt)
                          ELSE VariantValue(feature_data, k)])

convert_map_feature(feature_id, feature_data, salt) ==
    LET v == Variant(feature_data)
    IN  IF VariantRaises(feature_data, v) THEN Raised
        ELSE IF v = "None" THEN Returned(PyNone)
        ELSE Returned([k \in {"id", v} |->
                          IF k = "id" THEN MapFeatureId(feature_id, salt)
                          ELSE VariantValue(feature_data, v)])

----------------------------------------------------------------------------
(* build_waymo_example, one action per block of the function *)

\* the calls of build_waymo_example on scenario_data: calls 1 and 2 in one
\* interpreter process, call 3 in a fresh one
Calls == 1..3
ProcessOf(call) == IF call <= 2 THEN 1 ELSE 2
Salt == hashseed[ProcessOf(run)]

\* scenario_pb2.Scenario(): every field at its default
Scenario ==
    [scenario_id |-> "", timestamps_seconds |-> <<>>, current_time_index |-> 0,
     tracks |-> <<>>, sdc_track_index |-> 0, dynamic_map_states |-> <<>>,
     map_features |-> <<>>, objects_of_interest |-> <<>>,
     tracks_to_predict |-> <<>>]

\* the "Could not convert ... to integer, hashing instead" warning of one id
HashWarning(id) ==
    LET p == PyInt(id)
    IN  IF p.ok /\ ~FieldRaises(p) THEN <<>> ELSE << <<"hashing", id>> >>

RECURSIVE HashWarnings(_)
HashWarnings(ids) ==
    IF ids = <<>> THEN <<>> ELSE HashWarning(Head(ids)) \o HashWarnings(Tail(ids))

KeySeq(d) == [i \in DOMAIN d |-> d[i][1]]

\* the first position of id among the keys, counted from 1
PositionFromOne(tracks, id) ==
    CHOOSE i \in DOMAIN tracks :
        /\ tracks[i][1] = id
        /\ \A j \in 1..(i - 1) : tracks[j][1] # id

\* "for i, (track_id, _) in enumerate(tracks.items()): if track_id == id":
\* enumerate counts from 0
IndexIn(tracks, id) == PositionFromOne(tracks, id) - 1

SdcTrackIndexOrLast(tracks, sdc_id, default) ==
    IF sdc_id \in Keys(tracks) THEN IndexIn(tracks, sdc_id) ELSE Len(tracks) - 1

\* lines 52-64: the index of the track whose id is sdc_id; the field keeps
\* its default when there is none
SdcTrackIndex(tracks, sdc_id, default) ==
    IF sdc_id \in Keys(tracks) THEN IndexIn(tracks, sdc_id) ELSE default

exportOthers == <<entry, merged_filename, output_dir, batchVars, mergeVars,
                  idVars, scenario_data, track_in, track_out, feature_in,
                  feature_out, callVars>>

\* the subscripts of lines 36 and 39: a missing key raises KeyError
MetadataRaises(sd) ==
    \/ "metadata" \notin DOMAIN sd
    \/ "id" \notin DOMAIN sd.metadata
    \/ "ts" \notin DOMAIN sd.metadata

\* the subscripts of lines 50 and 51
TracksRaise(sd) ==
    \/ "tracks" \notin DOMAIN sd
    \/ "sdc_id" \notin DOMAIN sd.metadata

\* lines 33-47: the message, its id, timestamps and current time index
SetMetadata ==
    /\ pc = "metadata"
    /\ IF MetadataRaises(scenario_data)
       THEN /\ waymo_scenario' = [waymo_scenario EXCEPT ![run] = Raised]
            /\ pc' = "raised"
       ELSE /\ LET metadata == scenario_data.metadata
               IN  waymo_scenario' = [waymo_scenario EXCEPT ![run] =
                      [Scenario EXCEPT
                         !.scenario_id = metadata.id,
                         !.timestamps_seconds = metadata.ts,
                         !.current_time_index =
                            IF "current_time_index" \in DOMAIN metadata
                            THEN metadata.current_time_index
                            ELSE Len(metadata.ts) \div 2]]
            /\ pc' = "tracks"
    /\ UNCHANGED <<exportOthers, run, warnings>>

\* lines 49-66: the tracks in iteration order, then sdc_track_index
ConvertTracks ==
    /\ pc = "tracks"
    /\ IF TracksRaise(scenario_data)
       THEN /\ pc' = "raised"
            /\ waymo_scenario' = [waymo_scenario EXCEPT ![run] = Raised]
            /\ UNCHANGED warnings
       ELSE
       LET tracks == scenario_data.tracks
           sdc_id == scenario_data.metadata.sdc_id
           converted == [i \in DOMAIN tracks |->
                           convert_track(tracks[i][1], tracks[i][2], Salt)]
           raising == {i \in DOMAIN tracks : converted[i].raised}
           upto == IF raising = {} THEN Len(tracks)
                   ELSE CHOOSE i \in raising : \A j \in raising : i <= j
       IN  IF raising # {}
           THEN /\ pc' = "raised"
                /\ warnings' = [warnings EXCEPT ![run] =
                      @ \o HashWarnings(SubSeq(KeySeq(tracks), 1, upto))]
                /\ waymo_scenario' = [waymo_scenario EXCEPT ![run] = Raised]
           ELSE /\ pc' = "dynamic"
                /\ warnings' = [warnings EXCEPT ![run] =
                      @ \o HashWarnings(KeySeq(tracks))
                        \o (IF sdc_id \in Keys(tracks) THEN <<>>
                            ELSE << <<"sdc_not_found", scenario_data.metadata.id>> >>)]
                /\ waymo_scenario' = [waymo_scenario EXCEPT ![run] =
                      [@ EXCEPT
                         !.tracks = [i \in DOMAIN tracks |-> converted[i].value],
                         !.sdc_track_index = SdcTrackIndex(tracks, sdc_id, @)]]
    /\ UNCHANGED <<exportOthers, run>>

\* the light ids whose lane state is appended at time_index, in order
RECURSIVE LitIds(_, _)
LitIds(items, time_index) ==
    IF items = <<>> THEN <<>>
    ELSE (IF time_index < Len(Head(items)[2].state)
          THEN << Head(items)[1] >> ELSE <<>>) \o LitIds(Tail(items), time_index)

RECURSIVE DynamicWarnings(_, _)
DynamicWarnings(dynamic_map_states, n) ==
    IF n = 0 \/ "traffic_light_states" \notin DOMAIN dynamic_map_states THEN <<>>
    ELSE DynamicWarnings(dynamic_map_states, n - 1)
         \o HashWarnings(LitIds(dynamic_map_states.traffic_light_states, n - 1))

\* lines 68-72: one DynamicMapState per timestamp
ConvertDynamicMapStates ==
    /\ pc = "dynamic"
    /\ IF "dynamic_map_states" \in DOMAIN scenario_data
       THEN LET dms == scenario_data.dynamic_map_states
                n == Len(scenario_data.metadata.ts)
            IN  /\ waymo_scenario' =
                      [waymo_scenario EXCEPT ![run].dynamic_map_states =
                          [ts_idx \in 1..n |->
                              convert_dynamic_map_state(dms, ts_idx - 1, Salt)]]
                /\ warnings' = [warnings EXCEPT ![run] =
                                   @ \o DynamicWarnings(dms, n)]
       ELSE UNCHANGED <<waymo_scenario, warnings>>
    /\ pc' = "map_features"
    /\ UNCHANGED <<exportOthers, run>>

\* the loop of lines 76-79 over the items of map_features: [raised, value]
\* with the features appended so far
RECURSIVE MapFeaturesKeepNone(_, _)
MapFeaturesKeepNone(items, salt) ==
    IF items = <<>> THEN Returned(<<>>)
    ELSE LET map_feature == convert_map_feature(Head(items)[1], Head(items)[2], salt)
             rest == MapFeaturesKeepNone(Tail(items), salt)
         IN  IF map_feature.raised THEN [raised |-> TRUE, value |-> <<>>]
             ELSE [raised |-> rest.raised,
                   value |-> <<map_feature.value>> \o rest.value]

RECURSIVE MapFeatures(_, _)
MapFeatures(items, salt) ==
    IF items = <<>> THEN Returned(<<>>)
    ELSE LET map_feature == convert_map_feature(Head(items)[1], Head(items)[2], salt)
             rest == MapFeatures(Tail(items), salt)
         IN  IF map_feature.raised THEN [raised |-> TRUE, value |-> <<>>]
             ELSE [raised |-> rest.raised,
                   value |-> (IF map_feature.value # PyNone
                              THEN <<map_feature.value>> ELSE <<>>) \o rest.value]

\* the feature ids converted before the loop ends or raises
RECURSIVE ConvertedIds(_, _)
ConvertedIds(items, salt) ==
    IF items = <<>> THEN <<>>
    ELSE << Head(items)[1] >>
         \o (IF convert_map_feature(Head(items)[1], Head(items)[2], salt).raised
             THEN <<>> ELSE ConvertedIds(Tail(items), salt))

\* lines 74-79: the map features, without those convert_map_feature skips
ConvertMapFeatures ==
    /\ pc = "map_features"
    /\ IF "map_features" \in DOMAIN scenario_data
       THEN LET r == MapFeatures(scenario_data.map_features, Salt)
            IN  /\ waymo_scenario' =
                      IF r.raised
                      THEN [waymo_scenario EXCEPT ![run] = Raised]
                      ELSE [waymo_scenario EXCEPT ![run].map_features = r.value]
                /\ warnings' = [warnings EXCEPT ![run] = @ \o
                      HashWarnings(ConvertedIds(scenario_data.map_features, Salt))]
                /\ pc' = IF r.raised THEN "raised" ELSE "objects_of_interest"
       ELSE /\ pc' = "objects_of_interest"
            /\ UNCHANGED <<waymo_scenario, warnings>>
    /\ UNCHANGED <<exportOthers, run>>

RECURSIVE InterestIndicesKeepAbsent(_, _)
InterestIndicesKeepAbsent(ids, tracks) ==
    IF ids = <<>> THEN <<>>
    ELSE << IF Head(ids) \in Keys(tracks) THEN IndexIn(tracks, Head(ids)) ELSE 0 >>
         \o InterestIndicesKeepAbsent(Tail(ids), tracks)

\* the loop of lines 83-89
RECURSIVE InterestIndices(_, _)
InterestIndices(ids, tracks) ==
    IF ids = <<>> THEN <<>>
    ELSE (IF Head(ids) \in Keys(tracks)
          THEN << IndexIn(tracks, Head(ids)) >> ELSE <<>>)
         \o InterestIndices(Tail(ids), tracks)

\* lines 81-89
ConvertObjectsOfInterest ==
    /\ pc = "objects_of_interest"
    /\ IF "objects_of_interest" \in DOMAIN scenario_data.metadata
       THEN waymo_scenario' =
               [waymo_scenario EXCEPT ![run].objects_of_interest =
                   InterestIndices(scenario_data.metadata.objects_of_interest,
                                   scenario_data.tracks)]
       ELSE UNCHANGED waymo_scenario
    /\ pc' = "tracks_to_predict"
    /\ UNCHANGED <<exportOthers, run, warnings>>

\* lines 103-110
Difficulty(track_info) ==
    LET difficulty == Get(track_info, "difficulty", 0)
    IN  IF difficulty = 1 THEN "LEVEL_1"
        ELSE IF difficulty = 2 THEN "LEVEL_2"
        ELSE "NONE"

\* the loop of lines 93-112
RECURSIVE Predictions(_, _)
Predictions(items, tracks) ==
    IF items = <<>> THEN <<>>
    ELSE (IF Head(items)[1] \in Keys(tracks)
          THEN << [track_index |-> IndexIn(tracks, Head(items)[1]),
                   difficulty |-> Difficulty(Head(items)[2])] >>
          ELSE <<>>)
         \o Predictions(Tail(items), tracks)

\* lines 91-114: tracks_to_predict, and the message is returned
ConvertTracksToPredict ==
    /\ pc = "tracks_to_predict"
    /\ IF "tracks_to_predict" \in DOMAIN scenario_data.metadata
       THEN waymo_scenario' =
               [waymo_scenario EXCEPT ![run].tracks_to_predict =
                   Predictions(scenario_data.metadata.tracks_to_predict,
                               scenario_data.tracks)]
       ELSE UNCHANGED waymo_scenario
    /\ pc' = "done"
    /\ UNCHANGED <<exportOthers, run, warnings>>

\* build_waymo_example is called again on the same scenario_data
CallAgain ==
    /\ pc \in {"done", "raised"}
    /\ run + 1 \in Calls
    /\ run' = run + 1
    /\ pc' = "metadata"
    /\ UNCHANGED <<exportOthers, waymo_scenario, warnings>>

\* call c has returned its message
HasReturned(c) ==
    /\ c < run \/ (c = run /\ pc = "done")
    /\ waymo_scenario[c] # Raised

NextExport ==
    \/ SetMetadata
    \/ ConvertTracks
    \/ ConvertDynamicMapStates
    \/ ConvertMapFeatures
    \/ ConvertObjectsOfInterest
    \/ ConvertTracksToPredict

NextReexport == NextExport \/ CallAgain

----------------------------------------------------------------------------
(* The scenarios, tracks and map features the codec is run on *)

\* most entries of objects_of_interest and of tracks_to_predict
MaxRefs == 2
\* most lanes with a light-state history
MaxLights == 2

BoolSeqs(n) == SeqsUpTo(BOOLEAN, n)

\* every dict of at most n items over the keys K with values in V
DictsUpTo(K, V, n) ==
    {d \in SeqsUpTo(K \X V, n) : IsDict(d)}

\* a track whose arrays all have the length of valid; array element i of
\* every field is a different non-zero number
MakeTrack(type, track_length, valid, base) ==
    LET n == Len(valid)
    IN  [type |-> type,
         metadata |-> [track_length |-> track_length],
         state |->
            [valid |-> valid,
             position |-> [i \in 1..n |-> <<base + i, base + 10 + i, base + 20 + i>>],
             length |-> [i \in 1..n |-> base + 30 + i],
             width |-> [i \in 1..n |-> base + 40 + i],
             height |-> [i \in 1..n |-> base + 50 + i],
             heading |-> [i \in 1..n |-> base + 60 + i],
             velocity |-> [i \in 1..n |-> <<base + 70 + i, base + 80 + i>>]]]

TypeTokens == {VEHICLE, PEDESTRIAN, CYCLIST, "TRAFFIC_CONE"}

\* the track with the last element of one of its arrays missing
ShortenArray(track_data, a) ==
    [track_data EXCEPT !.state[a] = SubSeq(@, 1, Len(@) - 1)]

\* tracks whose arrays all have the length of valid, whatever track_length
\* is, and tracks of track_length states with one array an element short
TrackInputs ==
    {[track_id |-> id,
      track_data |-> MakeTrack(type, track_length, valid, 100)] :
        id \in {<<"7">>, <<"a">>},
        type \in TypeTokens,
        track_length \in 0..MaxTrackLen,
        valid \in BoolSeqs(MaxTrackLen)}
    \cup
    {[track_id |-> <<"7">>,
      track_data |-> ShortenArray(MakeTrack(VEHICLE, Len(valid), valid, 100), a)] :
        valid \in BoolSeqs(MaxTrackLen) \ {<<>>},
        a \in StateArrays}

\* convert_track is called on track_in
ConvertTrackCall ==
    /\ pc = "convert_track"
    /\ track_out' = convert_track(track_in.track_id, track_in.track_data,
                                  hashseed[1])
    /\ pc' = "done"
    /\ UNCHANGED <<entry, merged_filename, output_dir, batchVars, mergeVars,
                   idVars, scenario_data, run, waymo_scenario, warnings,
                   track_in, feature_in, feature_out, callVars>>

\* the pipeline, the merge and the identifier resolution are not running
CodecOnly ==
    /\ merged_filename = None
    /\ output_dir = <<>>
    /\ BatchIdle /\ MergeIdle /\ IdIdle /\ CallIdle

InitTrack ==
    /\ entry = "convert_track"
    /\ pc = "convert_track"
    /\ track_in \in TrackInputs
    /\ track_out = <<>>
    /\ hashseed = [p \in Processes |-> MaxSalt]
    /\ scenario_data = <<>>
    /\ run = 0
    /\ waymo_scenario = <<>>
    /\ warnings = <<>>
    /\ feature_in = <<>>
    /\ feature_out = <<>>
    /\ CodecOnly

SpecTrack == InitTrack /\ [][ConvertTrackCall]_vars

\* geometry points with two and with three coordinates
Points == {<<1, 2>>, <<3, 4, 5>>}

FeatureTokens ==
    RoadLineTokens \cup RoadEdgeTokens
    \cup {STOP_SIGN, CROSSWALK, "LANE_SURFACE_STREET", "SURFACE_STREET", ""}

\* a key that may be missing from a dict: <<>> is the dict without it
Optional(key, values) == {<<>>} \cup {[k \in {key} |-> v] : v \in values}

LaneExtras ==
    [interpolating |-> TRUE,
     entry_lanes |-> << <<"4">> >>,
     exit_lanes |-> << <<"6">>, <<"8">> >>,
     left_boundaries |->
        << [boundary_feature_id |-> <<"9">>, boundary_type |-> "SOLID_SINGLE_WHITE"],
           [boundary_type |-> "CURB"] >>,
     right_boundaries |-> << [boundary_feature_id |-> <<"9">>] >>,
     left_neighbor |->
        << [feature_id |-> <<"2">>, self_start_index |-> 0, self_end_index |-> 1,
            neighbor_start_index |-> 2] >>,
     right_neighbor |->
        << [self_start_index |-> 0, neighbor_start_index |-> 2,
            neighbor_end_index |-> 3] >>]

FeatureDatas ==
    {speed @@ type @@ polyline @@ polygon @@ position @@ extras :
        speed \in Optional("speed_limit_mph", {25}),
        type \in Optional("type", FeatureTokens),
        polyline \in Optional("polyline", SeqsUpTo(Points, MaxPoints)),
        polygon \in Optional("polygon", {<< <<1, 2>>, <<3, 4, 5>> >>}),
        position \in Optional("position", {<<1, 2, 3>>, <<1, 2>>}),
        extras \in {<<>>, LaneExtras}}

FeatureInputs ==
    {[feature_id |-> id, feature_data |-> fd] :
        id \in {<<"5">>}, fd \in FeatureDatas}

\* convert_map_feature is called on feature_in
ConvertMapFeatureCall ==
    /\ pc = "convert_map_feature"
    /\ feature_out' = convert_map_feature(feature_in.feature_id,
                                          feature_in.feature_data, hashseed[1])
    /\ pc' = "done"
    /\ UNCHANGED <<entry, merged_filename, output_dir, batchVars, mergeVars,
                   idVars, scenario_data, run, waymo_scenario, warnings,
                   track_in, track_out, feature_in, callVars>>

InitFeature ==
    /\ entry = "convert_map_feature"
    /\ pc = "convert_map_feature"
    /\ feature_in \in FeatureInputs
    /\ feature_out = <<>>
    /\ hashseed = [p \in Processes |-> MaxSalt]
    /\ scenario_data = <<>>
    /\ run = 0
    /\ waymo_scenario = <<>>
    /\ warnings = <<>>
    /\ track_in = <<>>
    /\ track_out = <<>>
    /\ CodecOnly

SpecFeature == InitFeature /\ [][ConvertMapFeatureCall]_vars

----------------------------------------------------------------------------
(* Claims about the stored identifiers' range, under SpecId *)

\* int(s) gives an integer of the signed 32-bit range
ParsesInRange(s) == PyInt(s).ok /\ ~PyInt(s).big
\* int(s) gives an integer outside the signed 32-bit range
ParsesOutOfRange(s) == PyInt(s).ok /\ PyInt(s).big

StoredIds(p) == {resolved[p].track, resolved[p].lane, resolved[p].feature}

----------------------------------------------------------------------------
(* build_waymo_example's scenarios *)

ExportTrackIds == {<<"1">>, <<"7">>, <<"a">>}
\* an id that is no track's
UnmatchedId == <<"e">>

\* the track of a scenario with the given id: one valid state, its type and
\* its numbers different for every id
TrackOf(id) ==
    MakeTrack(CASE id = <<"1">> -> VEHICLE
                [] id = <<"7">> -> PEDESTRIAN
                [] OTHER -> CYCLIST,
              1, <<TRUE>>, 100 * CharCode(id[1]))

\* the tracks dicts: the ids of a subset, inserted in any order
TracksDicts ==
    UNION {{[i \in DOMAIN l |-> <<l[i], TrackOf(l[i])>>] : l \in Listings(S)} :
              S \in {T \in SUBSET ExportTrackIds : Cardinality(T) <= MaxTracks}}

Timestamps(n) == [i \in 1..n |-> i]

TrackInfos == {<<>>, [difficulty |-> 1], [difficulty |-> 2], [difficulty |-> 3]}

\* scenarios that differ in their tracks, sdc_id, objects_of_interest and
\* tracks_to_predict
IndexScenarios ==
    {[metadata |-> [id |-> "scn", ts |-> Timestamps(MaxSteps), sdc_id |-> sdc_id]
                   @@ interest @@ predict,
      tracks |-> tracks] :
        tracks \in TracksDicts,
        sdc_id \in ExportTrackIds \cup {UnmatchedId},
        interest \in Optional("objects_of_interest",
                              SeqsUpTo({<<"7">>, UnmatchedId}, MaxRefs)),
        predict \in Optional("tracks_to_predict",
                             DictsUpTo({<<"a">>, UnmatchedId}, TrackInfos, MaxRefs))}

\* a light-state history of n entries; "FLASHING" is no recognised token
History(n) == [state |-> [i \in 1..n |-> IF i % 2 = 1 THEN "GO" ELSE "FLASHING"]]

DynamicMapStates ==
    {<<>>} \cup
    {[traffic_light_states |-> d] :
        d \in DictsUpTo({<<"3">>, <<"b">>}, {History(n) : n \in 0..MaxSteps}, MaxLights)}

\* a lane, a road line, a stop sign that also has a speed limit, a crosswalk
\* and two descriptors no rule matches
ExportFeatureDatas ==
    { [speed_limit_mph |-> 25, type |-> "SURFACE_STREET",
       polyline |-> << <<1, 2>>, <<3, 4, 5>> >>],
      [type |-> "SOLID_SINGLE_WHITE", polyline |-> << <<1, 2>> >>],
      [type |-> STOP_SIGN, speed_limit_mph |-> 15, position |-> <<1, 2, 3>>],
      [type |-> CROSSWALK, polygon |-> << <<1, 2>>, <<3, 4>> >>],
      [type |-> "LANE_SURFACE_STREET", polyline |-> << <<1, 2>> >>],
      <<>> }

\* scenarios that differ in their timestamps, current_time_index,
\* dynamic_map_states and map_features
MapScenarios ==
    {[metadata |-> [id |-> "scn", ts |-> Timestamps(n), sdc_id |-> <<"1">>]
                   @@ current,
      tracks |-> << <<(<<"1">>), TrackOf(<<"1">>)>> >>]
     @@ dynamic @@ features :
        n \in 0..MaxSteps,
        current \in Optional("current_time_index", {0}),
        dynamic \in Optional("dynamic_map_states", DynamicMapStates),
        features \in Optional("map_features",
                              DictsUpTo({<<"5">>, <<"c">>}, ExportFeatureDatas,
                                        MaxFeatures))}

\* scenarios whose track, lane and feature ids are numeric or not
ReexportScenarios ==
    {[metadata |-> [id |-> "scn", ts |-> Timestamps(1), sdc_id |-> track_id],
      tracks |-> << <<track_id, TrackOf(track_id)>> >>,
      dynamic_map_states |->
          [traffic_light_states |-> << <<light_id, History(1)>> >>],
      map_features |->
          << <<feature_id, [type |-> "SOLID_SINGLE_WHITE"]>> >>] :
        track_id \in {<<"1">>, <<"a">>},
        light_id \in {<<"3">>, <<"b">>},
        feature_id \in {<<"5">>, <<"c">>}}

\* build_waymo_example(scenario_data) is about to be called
ExportStart ==
    /\ pc = "metadata"
    /\ run = 1
    /\ waymo_scenario = [c \in Calls |-> PyNone]
    /\ warnings = [c \in Calls |-> <<>>]
    /\ track_in = <<>>
    /\ track_out = <<>>
    /\ feature_in = <<>>
    /\ feature_out = <<>>
    /\ CodecOnly

InitExport ==
    /\ entry = "build_waymo_example"
    /\ scenario_data \in IndexScenarios
    /\ hashseed = [p \in Processes |-> MaxSalt]
    /\ ExportStart

SpecExport == InitExport /\ [][NextExport]_vars

InitExportMap ==
    /\ entry = "build_waymo_example"
    /\ scenario_data \in MapScenarios
    /\ hashseed = [p \in Processes |-> MaxSalt]
    /\ ExportStart

SpecExportMap == InitExportMap /\ [][NextExport]_vars

InitReexport ==
    /\ entry = "build_waymo_example"
    /\ scenario_data \in ReexportScenarios
    /\ hashseed \in [Processes -> Salts]
    /\ ExportStart

SpecReexport == InitReexport /\ [][NextReexport]_vars

----------------------------------------------------------------------------
(* Claims about build_waymo_example called again, under SpecReexport *)

\* C12: every call of build_waymo_example on the same scenario, in the same
\* interpreter process or in a fresh one, returns the same message.
C12_ExportDeterminism ==
    \A c, d \in Calls :
        (HasReturned(c) /\ HasReturned(d))
        => waymo_scenario[c] = waymo_scenario[d]

----------------------------------------------------------------------------
(* Claims about the track indices of the message, under SpecExport *)

\* the message call 1 returned
Message == waymo_scenario[1]

\* the position of a key in a dict's iteration order, counted from 0
KeyPosition(d, key) == CHOOSE k \in 0..(Len(d) - 1) : d[k + 1][1] = key

\* d[key]
ValueOf(d, key) == d[KeyPosition(d, key) + 1][2]

SdcMatches == scenario_data.metadata.sdc_id \in Keys(scenario_data.tracks)

\* C13: when sdc_id is a key of tracks, the returned sdc_track_index is the
\* position of sdc_id in the tracks' iteration order, and the returned track
\* at that index is the encoding of the sdc track.
C13_EgoIndexConsistency ==
    (HasReturned(1) /\ SdcMatches)
    => LET sdc_id == scenario_data.metadata.sdc_id
           tracks == scenario_data.tracks
       IN  /\ Message.sdc_track_index = KeyPosition(tracks, sdc_id)
           /\ Message.tracks[Message.sdc_track_index + 1]
                 = convert_track(sdc_id, ValueOf(tracks, sdc_id), hashseed[1]).value

\* C13's case: tracks inserted in the order "1", "7", "a" with sdc_id "7"
\* give index 1
C13_Witness ==
    /\ HasReturned(1)
    /\ KeySeq(scenario_data.tracks) = << <<"1">>, <<"7">>, <<"a">> >>
    /\ scenario_data.metadata.sdc_id = <<"7">>
    /\ Message.sdc_track_index = 1
    /\ Message.tracks[2].object_type = "TYPE_PEDESTRIAN"

\* the message fields other than sdc_track_index
OtherFields == DOMAIN Scenario \ {"sdc_track_index"}

\* what the fields that do not depend on sdc_id hold for scenario sd
EncodedApartFromSdc(sd, salt) ==
    [scenario_id |-> sd.metadata.id,
     timestamps_seconds |-> sd.metadata.ts,
     current_time_index |->
        Get(sd.metadata, "current_time_index", Len(sd.metadata.ts) \div 2),
     tracks |-> [i \in DOMAIN sd.tracks |->
                    convert_track(sd.tracks[i][1], sd.tracks[i][2], salt).value],
     dynamic_map_states |->
        IF "dynamic_map_states" \in DOMAIN sd
        THEN [t \in 1..Len(sd.metadata.ts) |->
                 convert_dynamic_map_state(sd.dynamic_map_states, t - 1, salt)]
        ELSE <<>>,
     map_features |->
        IF "map_features" \in DOMAIN sd
        THEN MapFeatures(sd.map_features, salt).value
        ELSE <<>>,
     objects_of_interest |->
        InterestIndices(Get(sd.metadata, "objects_of_interest", <<>>), sd.tracks),
     tracks_to_predict |->
        Predictions(Get(sd.metadata, "tracks_to_predict", <<>>), sd.tracks)]

\* C14: when sdc_id matches no track id, build_waymo_example does not raise:
\* it warns, leaves sdc_track_index at its default 0, and returns a message
\* whose other fields are what they are for any sdc_id.
C14_UnmatchedEgoIsNonFatal ==
    ~SdcMatches
    => /\ pc # "raised"
       /\ pc \notin {"metadata", "tracks"}
          => /\ Message.sdc_track_index = 0
             /\ \E i \in DOMAIN warnings[1] :
                   warnings[1][i] = <<"sdc_not_found", scenario_data.metadata.id>>
       /\ HasReturned(1)
          => \A f \in OtherFields :
                Message[f] = EncodedApartFromSdc(scenario_data, hashseed[1])[f]

\* C14's case: three tracks, an sdc_id that is none of them, and the message
\* has been returned with its tracks and an object of interest
C14_Witness ==
    /\ ~SdcMatches
    /\ HasReturned(1)
    /\ Len(Message.tracks) = 3
    /\ Message.objects_of_interest # <<>>
    /\ Message.sdc_track_index = 0

\* C15: objects_of_interest holds, for the source ids that are track ids and
\* in source order, the id's position in the tracks' iteration order;
\* tracks_to_predict likewise; ids that are no track's give no entry; every
\* index is in [0, number of tracks).
C15_IndexReferentialIntegrity ==
    HasReturned(1)
    => LET tracks == scenario_data.tracks
           IsTrack(id) == id \in Keys(tracks)
           interest == SelectSeq(Get(scenario_data.metadata, "objects_of_interest", <<>>),
                                 IsTrack)
           predict == SelectSeq(KeySeq(Get(scenario_data.metadata, "tracks_to_predict", <<>>)),
                                IsTrack)
       IN  /\ Message.objects_of_interest
                 = [i \in DOMAIN interest |-> KeyPosition(tracks, interest[i])]
           /\ [i \in DOMAIN Message.tracks_to_predict |->
                  Message.tracks_to_predict[i].track_index]
                 = [i \in DOMAIN predict |-> KeyPosition(tracks, predict[i])]
           /\ \A i \in DOMAIN Message.objects_of_interest :
                  Message.objects_of_interest[i] \in 0..(Len(tracks) - 1)
           /\ \A i \in DOMAIN Message.tracks_to_predict :
                  Message.tracks_to_predict[i].track_index \in 0..(Len(tracks) - 1)

\* C15's case: of the objects of interest "e", "7" only "7" is a track, at
\* index 2, and the track to predict "a" is at index 1
C15_Witness ==
    /\ HasReturned(1)
    /\ KeySeq(scenario_data.tracks) = << <<"1">>, <<"a">>, <<"7">> >>
    /\ "objects_of_interest" \in DOMAIN scenario_data.metadata
    /\ scenario_data.metadata.objects_of_interest = << <<"e">>, <<"7">> >>
    /\ Message.objects_of_interest = <<2>>
    /\ Len(Message.tracks_to_predict) = 1
    /\ Message.tracks_to_predict[1].track_index = 1

----------------------------------------------------------------------------
(* Claims about convert_map_feature, under SpecFeature *)

FiveVariants == {"lane", "road_line", "road_edge", "stop_sign", "crosswalk"}

\* convert_map_feature returned a feature
FeatureEmitted ==
    /\ pc = "done"
    /\ ~feature_out.raised
    /\ feature_out.value # PyNone

\* the variants populated on the returned feature
Populated == DOMAIN feature_out.value \cap FiveVariants

HasSpeedLimit == "speed_limit_mph" \in DOMAIN feature_in.feature_data

\* C16: a map feature returned by convert_map_feature has exactly one of the
\* variants lane, road_line, road_edge, stop_sign, crosswalk populated; for a
\* descriptor with a speed-limit attribute that one is lane.
C16_VariantExclusivity ==
    FeatureEmitted
    => /\ Cardinality(Populated) = 1
       /\ HasSpeedLimit => Populated = {"lane"}

\* C16's case: a descriptor with a speed limit and a road-line type token
\* came back as a lane
C16_Witness ==
    /\ FeatureEmitted
    /\ HasSpeedLimit
    /\ "type" \in DOMAIN feature_in.feature_data
    /\ feature_in.feature_data.type = "SOLID_DOUBLE_YELLOW"
    /\ Populated = {"lane"}

\* the five rules in their order: <<the rule's test, its variant>>
Rules(feature_data) ==
    LET token == IF "type" \in DOMAIN feature_data THEN feature_data.type ELSE ""
    IN  << <<"speed_limit_mph" \in DOMAIN feature_data, "lane">>,
           <<token \in RoadLineTokens, "road_line">>,
           <<token \in RoadEdgeTokens, "road_edge">>,
           <<token = "STOP_SIGN", "stop_sign">>,
           <<token = "CROSSWALK", "crosswalk">> >>

\* the variant of the first rule that matches, "None" when none does
FirstMatch(feature_data) ==
    LET rules == Rules(feature_data)
        matching == {i \in DOMAIN rules : rules[i][1]}
    IN  IF matching = {} THEN "None"
        ELSE rules[CHOOSE i \in matching : \A j \in matching : i <= j][2]

\* C17: convert_map_feature takes the variant of the first matching rule in
\* the order speed limit, road-line token, road-edge token, stop-sign marker,
\* crosswalk marker; a descriptor with a speed limit is a lane whatever its
\* type token.
C17_ClassificationPrecedence ==
    (pc = "done" /\ ~feature_out.raised)
    => LET first == FirstMatch(feature_in.feature_data)
       IN  IF first = "None"
           THEN feature_out.value = PyNone
           ELSE /\ feature_out.value # PyNone
                /\ first \in DOMAIN feature_out.value

\* C17's case: a descriptor with a speed limit and the stop-sign marker came
\* back as a lane, not as a stop sign
C17_Witness ==
    /\ pc = "done"
    /\ ~feature_out.raised
    /\ HasSpeedLimit
    /\ "type" \in DOMAIN feature_in.feature_data
    /\ feature_in.feature_data.type = STOP_SIGN
    /\ "lane" \in DOMAIN feature_out.value
    /\ "stop_sign" \notin DOMAIN feature_out.value

----------------------------------------------------------------------------
(* Claims about map features and dynamic map states, under SpecExportMap *)

\* one of the five rules matches the descriptor
Classifiable(feature_data) == FirstMatch(feature_data) # "None"

SourceFeatures == Get(scenario_data, "map_features", <<>>)

\* C18: a descriptor no rule matches gives no map feature and no error: the
\* returned map_features are the encodings of the classifiable source
\* features, in the source mapping's iteration order.
C18_UnclassifiableFeaturesDropped ==
    /\ pc # "raised"
    /\ HasReturned(1)
       => LET IsClassifiable(item) == Classifiable(item[2])
              kept == SelectSeq(SourceFeatures, IsClassifiable)
          IN  /\ Len(Message.map_features) = Len(kept)
              /\ \A i \in DOMAIN kept :
                    Message.map_features[i]
                       = convert_map_feature(kept[i][1], kept[i][2], hashseed[1]).value

\* C18's case: of two source features the first matches no rule and the
\* second is a lane; one map feature, the lane, was returned
C18_Witness ==
    /\ HasReturned(1)
    /\ Len(SourceFeatures) = 2
    /\ ~Classifiable(SourceFeatures[1][2])
    /\ Classifiable(SourceFeatures[2][2])
    /\ Len(Message.map_features) = 1
    /\ "lane" \in DOMAIN Message.map_features[1]

\* the lanes with a light-state history, as <<light id, history>> in order
Lights ==
    IF "dynamic_map_states" \in DOMAIN scenario_data
       /\ "traffic_light_states" \in DOMAIN scenario_data.dynamic_map_states
    THEN scenario_data.dynamic_map_states.traffic_light_states
    ELSE <<>>

\* the entry at timestep index t (from 0) holds one pair for each lane whose
\* history is longer than t, and nothing else
EntryHoldsLiveLanes(t) ==
    LET StillLit(item) == Len(item[2].state) > t
        live == SelectSeq(Lights, StillLit)
        entry_t == Message.dynamic_map_states[t + 1].lane_states
    IN  /\ Len(entry_t) = Len(live)
        /\ \A i \in DOMAIN live :
              entry_t[i] = [lane |-> LaneId(live[i][1], hashseed[1]),
                            state |-> convert_traffic_light_state(live[i][2].state[t + 1])]

NumTimesteps == Len(scenario_data.metadata.ts)

\* C20 as stated: the message has one DynamicMapState per timestep, and the
\* entry at index t holds exactly one (lane id, light code) pair for each
\* lane whose history is longer than t and none for any other lane.
C20_OneEntryPerTimestep ==
    HasReturned(1)
    => /\ Len(Message.dynamic_map_states) = NumTimesteps
       /\ \A t \in 0..(NumTimesteps - 1) : EntryHoldsLiveLanes(t)

\* C20, amended: that holds when the scenario has a dynamic_map_states
\* entry; when it has none the message has no DynamicMapState at all.  A
\* history shorter than the scenario never makes the export raise.
C20_OneEntryPerTimestepIfPresent ==
    /\ pc # "raised"
    /\ HasReturned(1)
       => IF "dynamic_map_states" \in DOMAIN scenario_data
          THEN /\ Len(Message.dynamic_map_states) = NumTimesteps
               /\ \A t \in 0..(NumTimesteps - 1) : EntryHoldsLiveLanes(t)
          ELSE Message.dynamic_map_states = <<>>

\* C20's case: two timesteps, lane "3" with a history of one entry and lane
\* "b" with two; the first entry has both lanes, the second only "b"
C20_Witness ==
    /\ HasReturned(1)
    /\ NumTimesteps = 2
    /\ Len(Lights) = 2
    /\ Lights[1][1] = <<"3">> /\ Len(Lights[1][2].state) = 1
    /\ Lights[2][1] = <<"b">> /\ Len(Lights[2][2].state) = 2
    /\ Len(Message.dynamic_map_states[1].lane_states) = 2
    /\ Len(Message.dynamic_map_states[2].lane_states) = 1
    /\ Message.dynamic_map_states[2].lane_states[1].state = "UNKNOWN"

----------------------------------------------------------------------------
(* Claims about convert_track, under SpecTrack *)

\* every field of a state record but valid
ValueFields == DOMAIN ObjectState \ {"valid"}

\* convert_track returned a track
TrackEmitted == pc = "done" /\ ~track_out.raised

\* every array of the track has exactly track_length elements
ArraysMatchLength ==
    LET track_data == track_in.track_data
    IN  \A a \in StateArrays \cup {"valid"} :
           Len(track_data.state[a]) = track_data.metadata.track_length

\* C19: convert_track returns exactly track_length state records in index
\* order; record i of an index with valid[i] false has valid = false and
\* every other field at its default; otherwise it has the position, the
\* length, width and height, the heading and the two velocity components of
\* index i of the source arrays and valid = true.  A track whose arrays have
\* track_length elements is always converted.
C19_TrackStatesWithGaps ==
    /\ (pc = "done" /\ ArraysMatchLength) => ~track_out.raised
    /\ TrackEmitted
       => LET state_data == track_in.track_data.state
              states == track_out.value.states
          IN  /\ Len(states) = track_in.track_data.metadata.track_length
              /\ \A i \in DOMAIN states :
                    IF state_data.valid[i]
                    THEN /\ states[i].valid = TRUE
                         /\ <<states[i].center_x, states[i].center_y, states[i].center_z>>
                               = state_data.position[i]
                         /\ states[i].length = state_data.length[i]
                         /\ states[i].width = state_data.width[i]
                         /\ states[i].height = state_data.height[i]
                         /\ states[i].heading = state_data.heading[i]
                         /\ <<states[i].velocity_x, states[i].velocity_y>>
                               = state_data.velocity[i]
                    ELSE /\ states[i].valid = FALSE
                         /\ \A f \in ValueFields : states[i][f] = 0

\* C19's case: a track of two states, the first invalid and the second
\* valid, has been converted
C19_Witness ==
    /\ TrackEmitted
    /\ track_in.track_data.metadata.track_length = 2
    /\ track_in.track_data.state.valid = <<FALSE, TRUE>>
    /\ Len(track_out.value.states) = 2
    /\ track_out.value.states[1] = ObjectState
    /\ track_out.value.states[2].valid
    /\ track_out.value.states[2].center_x = track_in.track_data.state.position[2][1]
----------------------------------------------------------------------------
(* The type converters called on their own *)

Taxonomies == {"agent", "lane", "road_line", "road_edge", "traffic_light"}

\* the converter of each taxonomy
CallConverter(kind, token) ==
    CASE kind = "agent" -> convert_object_type(token)
      [] kind = "lane" -> convert_lane_type(token)
      [] kind = "road_line" -> convert_road_line_type(token)
      [] kind = "road_edge" -> convert_road_edge_type(token)
      [] kind = "traffic_light" -> convert_traffic_light_state(token)

\* strings no converter compares with: the empty string, the prefixed tokens
\* of the raw-to-unified converter, a token in lower case
ForeignTokens ==
    {"", "LANE_FREEWAY", "ROAD_LINE_SOLID_SINGLE_WHITE", "UNSET", "OTHER",
     "TRAFFIC_CONE", "go"}

\* every string some converter compares with, and the foreign ones
MapperTokens ==
    {VEHICLE, PEDESTRIAN, CYCLIST}
    \cup {"UNKNOWN", "FREEWAY", "SURFACE_STREET", "BIKE_LANE"}
    \cup RoadLineTokens \cup RoadEdgeTokens \cup TrafficLightTokens
    \cup ForeignTokens

\* a converter is called on mapper_in.token; a chain of == tests on a str
\* with a final else always returns
ConverterCall ==
    /\ pc = "convert_type"
    /\ mapper_out' = Returned(CallConverter(mapper_in.kind, mapper_in.token))
    /\ pc' = "done"
    /\ UNCHANGED <<entry, merged_filename, output_dir, batchVars, mergeVars,
                   idVars, scenario_data, run, waymo_scenario, warnings,
                   track_in, track_out, feature_in, feature_out, mapper_in,
                   unit_ret, scenarios, post_i, logged>>

InitMapper ==
    /\ entry = "convert_type"
    /\ pc = "convert_type"
    /\ mapper_in \in [kind : Taxonomies, token : MapperTokens]
    /\ mapper_out = <<>>
    /\ hashseed = [p \in Processes |-> MaxSalt]
    /\ scenario_data = <<>>
    /\ run = 0
    /\ waymo_scenario = <<>>
    /\ warnings = <<>>
    /\ track_in = <<>>
    /\ track_out = <<>>
    /\ feature_in = <<>>
    /\ feature_out = <<>>
    /\ unit_ret = <<>>
    /\ scenarios = <<>>
    /\ post_i = 0
    /\ logged = <<>>
    /\ merged_filename = None
    /\ output_dir = <<>>
    /\ BatchIdle /\ MergeIdle /\ IdIdle

SpecMapper == InitMapper /\ [][ConverterCall]_vars

----------------------------------------------------------------------------
(* Claims about the type converters, under SpecMapper *)

\* each taxonomy's table, as <<token, code>> pairs, and its fallback code
TaxonomyTable(kind) ==
    CASE kind = "agent" ->
            {<<"VEHICLE", "TYPE_VEHICLE">>, <<"PEDESTRIAN", "TYPE_PEDESTRIAN">>,
             <<"CYCLIST", "TYPE_CYCLIST">>}
      [] kind = "lane" ->
            {<<"UNKNOWN", "LANE_TYPE_UNDEFINED">>, <<"FREEWAY", "FREEWAY">>,
             <<"SURFACE_STREET", "SURFACE_STREET">>, <<"BIKE_LANE", "BIKE_LANE">>}
      [] kind = "road_line" ->
            {<<"BROKEN_SINGLE_WHITE", "BROKEN_SINGLE_WHITE">>,
             <<"SOLID_SINGLE_WHITE", "SOLID_SINGLE_WHITE">>,
             <<"SOLID_DOUBLE_WHITE", "SOLID_DOUBLE_WHITE">>,
             <<"BROKEN_SINGLE_YELLOW", "BROKEN_SINGLE_YELLOW">>,
             <<"BROKEN_DOUBLE_YELLOW", "BROKEN_DOUBLE_YELLOW">>,
             <<"SOLID_SINGLE_YELLOW", "SOLID_SINGLE_YELLOW">>,
             <<"SOLID_DOUBLE_YELLOW", "SOLID_DOUBLE_YELLOW">>,
             <<"PASSING_DOUBLE_YELLOW", "PASSING_DOUBLE_YELLOW">>}
      [] kind = "road_edge" ->
            {<<"BOUNDARY_UNKNOWN", "BOUNDARY_UNKNOWN">>,
             <<"ROAD_EDGE_BOUNDARY", "ROAD_EDGE_BOUNDARY">>,
             <<"ROAD_EDGE_MEDIAN", "ROAD_EDGE_MEDIAN">>}
      [] kind = "traffic_light" ->
            {<<"UNKNOWN", "UNKNOWN">>, <<"ARROW_STOP", "ARROW_STOP">>,
             <<"ARROW_CAUTION", "ARROW_CAUTION">>, <<"ARROW_GO", "ARROW_GO">>,
             <<"STOP", "STOP">>, <<"CAUTION", "CAUTION">>, <<"GO", "GO">>,
             <<"FLASHING_STOP", "FLASHING_STOP">>,
             <<"FLASHING_CAUTION", "FLASHING_CAUTION">>}

TaxonomyFallback(kind) ==
    CASE kind = "agent" -> "TYPE_OTHER"
      [] kind = "lane" -> "LANE_TYPE_UNDEFINED"
      [] kind = "road_line" -> "TYPE_UNDEFINED"
      [] kind = "road_edge" -> "TYPE_UNDEFINED"
      [] kind = "traffic_light" -> "UNKNOWN"

\* C21: every converter returns for every string and never raises; a token of
\* the taxonomy's table gives the table's code, and every other string gives
\* the taxonomy's fallback: TYPE_OTHER, LANE_TYPE_UNDEFINED, TYPE_UNDEFINED,
\* TYPE_UNDEFINED and UNKNOWN.
C21_FallbackTotality ==
    pc = "done"
    => LET table == TaxonomyTable(mapper_in.kind)
           rows == {r \in table : r[1] = mapper_in.token}
       IN  /\ ~mapper_out.raised
           /\ \A r \in rows : mapper_out.value = r[2]
           /\ rows = {} => mapper_out.value = TaxonomyFallback(mapper_in.kind)

\* C21's case: the lane converter was called on the raw-to-unified token
\* LANE_FREEWAY, which its table does not hold, and gave the fallback
C21_Witness ==
    /\ pc = "done"
    /\ mapper_in = [kind |-> "lane", token |-> "LANE_FREEWAY"]
    /\ mapper_out = Returned("LANE_TYPE_UNDEFINED")
----------------------------------------------------------------------------
(* One export unit: process_pickle_file and pickle_to_waymo on one file *)

\* the pickle file of the unit and the directory its TFRecord goes to, empty
\* or holding what an earlier run wrote under the same name
UnitFile == <<"a", "pkl">>
UnitDirs == {<<>>, Put(<<>>, OutputFile(UnitFile), <<StaleRecord(UnitFile)>>)}

\* a dict without the keys in S
Without(d, S) == [k \in DOMAIN d \ S |-> d[k]]

UnitBase ==
    [metadata |-> [id |-> "scn", ts |-> Timestamps(1), sdc_id |-> <<"1">>],
     tracks |-> << <<(<<"1">>), TrackOf(<<"1">>)>> >>]

\* the scenario with any of its metadata keys and top-level keys missing
UnitScenarios ==
    {Without([UnitBase EXCEPT !.metadata = Without(@, M)], T) :
        M \in SUBSET {"id", "ts", "sdc_id"},
        T \in SUBSET {"metadata", "tracks"}}

UnitResultAlwaysFile(raised, output_file) == output_file

\* what process_pickle_file returns: output_file, or "" from its except branch
UnitResult(raised, output_file) == IF raised THEN ExceptResult ELSE output_file

unitOthers == <<entry, merged_filename, batchVars, mergeVars, idVars,
                scenario_data, run, waymo_scenario, warnings, track_in,
                track_out, feature_in, feature_out, mapper_in, mapper_out,
                scenarios, post_i>>

\* build_waymo_example returned: write_to_tfrecord creates the file and
\* writes the message; process_pickle_file returns output_file,
\* pickle_to_waymo returns None
UnitWrite ==
    /\ pc = "done"
    /\ output_dir' = Put(output_dir, OutputFile(UnitFile),
                         << <<UnitFile, waymo_scenario[run]>> >>)
    /\ unit_ret' = IF entry = "process_pickle_file"
                   THEN Returned(UnitResult(FALSE, OutputFile(UnitFile)))
                   ELSE Returned(PyNone)
    /\ pc' = "returned"
    /\ UNCHANGED <<unitOthers, logged>>

\* process_pickle_file: "except Exception" logs the error and returns ""
ProcessPickleFileExcept ==
    /\ entry = "process_pickle_file"
    /\ pc = "raised"
    /\ logged' = Append(logged, <<"Error processing", UnitFile>>)
    /\ unit_ret' = Returned(UnitResult(TRUE, OutputFile(UnitFile)))
    /\ pc' = "returned"
    /\ UNCHANGED <<unitOthers, output_dir>>

\* pickle_to_waymo has no try block: the exception reaches its caller
PickleToWaymoRaises ==
    /\ entry = "pickle_to_waymo"
    /\ pc = "raised"
    /\ unit_ret' = Raised
    /\ pc' = "propagated"
    /\ UNCHANGED <<unitOthers, output_dir, logged>>

InitUnit ==
    /\ entry \in {"process_pickle_file", "pickle_to_waymo"}
    /\ scenario_data \in UnitScenarios
    /\ hashseed = [p \in Processes |-> MaxSalt]
    /\ pc = "metadata"
    /\ run = 1
    /\ waymo_scenario = [c \in Calls |-> PyNone]
    /\ warnings = [c \in Calls |-> <<>>]
    /\ track_in = <<>>
    /\ track_out = <<>>
    /\ feature_in = <<>>
    /\ feature_out = <<>>
    /\ mapper_in = <<>>
    /\ mapper_out = <<>>
    /\ unit_ret = NotReturned
    /\ scenarios = <<>>
    /\ post_i = 0
    /\ logged = <<>>
    /\ output_dir \in UnitDirs
    /\ merged_filename = None
    /\ BatchIdle /\ MergeIdle /\ IdIdle

NextUnit ==
    \/ NextExport
    \/ UnitWrite
    \/ ProcessPickleFileExcept
    \/ PickleToWaymoRaises

SpecUnit == InitUnit /\ [][NextUnit]_vars

----------------------------------------------------------------------------
(* Claims about one export unit, under SpecUnit *)

RequiredFields == {"id", "ts", "tracks", "sdc_id"}

\* the scenario has the required field
HasField(sd, f) ==
    IF f = "tracks" THEN "tracks" \in DOMAIN sd
    ELSE "metadata" \in DOMAIN sd /\ f \in DOMAIN sd.metadata

SomeRequiredMissing == \E f \in RequiredFields : ~HasField(scenario_data, f)

\* the unit's function is over
UnitOver == pc \in {"returned", "propagated"}

\* nothing has been written to the output directory
NothingWritten == output_dir \in UnitDirs

\* C22: when a required field (id, timesteps, tracks, sdc_id) is missing,
\* build_waymo_example raises and gives no message; process_pickle_file then
\* logs the error and returns the empty string, pickle_to_waymo lets the
\* error reach its caller, and neither writes an output file.
C22_AllOrNothingExport ==
    SomeRequiredMissing
    => /\ pc # "done"
       /\ NothingWritten
       /\ UnitOver
          => /\ waymo_scenario[1] = Raised
             /\ IF entry = "process_pickle_file"
                THEN /\ pc = "returned"
                     /\ unit_ret = Returned(ExceptResult)
                     /\ Len(logged) = 1
                ELSE /\ pc = "propagated"
                     /\ unit_ret = Raised

\* C22's case: a scenario that lacks only sdc_id went through
\* process_pickle_file, which returned "" over an untouched empty directory
C22_Witness ==
    /\ entry = "process_pickle_file"
    /\ pc = "returned"
    /\ \A f \in RequiredFields : HasField(scenario_data, f) <=> f # "sdc_id"
    /\ unit_ret = Returned(<<>>)
    /\ output_dir = <<>>
----------------------------------------------------------------------------
(* Claims about tracks with inconsistent arrays, under SpecTrack *)

\* C23: whenever some state array of the track (valid, position, length,
\* width, height, heading, velocity) has a length other than track_length,
\* shorter or longer, convert_track raises and gives no track.
C23_InconsistentLengthsAbort ==
    (pc = "done" /\ ~ArraysMatchLength) => track_out.raised
----------------------------------------------------------------------------
(* Claims about the units' states, under Spec *)

UnitMoves ==
    {<<"Pending", "Running">>, <<"Running", "Succeeded">>, <<"Running", "Failed">>}

\* the file holds exactly the one record exported from f
CompletelyWritten(dir, f) ==
    /\ OutputFile(f) \in DOMAIN dir
    /\ Len(dir[OutputFile(f)]) = 1
    /\ dir[OutputFile(f)][1] # Corrupt
    /\ dir[OutputFile(f)][1][1] = f

\* C24: every step leaves each unit's state alone or moves it Pending ->
\* Running, Running -> Succeeded or Running -> Failed; units start Pending
\* and never disappear; a Succeeded or Failed unit never changes again and is
\* never taken by a worker again; a unit becomes Succeeded with its output
\* location as its result and its output file completely written; and no
\* step changes the state of two units.
C24_UnitStateMachine ==
    [][ /\ DOMAIN future \subseteq DOMAIN future'
        /\ \A f \in DOMAIN future' \ DOMAIN future : UnitState(f)' = "Pending"
        /\ \A f \in DOMAIN future :
              /\ UnitState(f)' # UnitState(f)
                 => <<UnitState(f), UnitState(f)'>> \in UnitMoves
              /\ UnitState(f) \in {"Succeeded", "Failed"}
                 => future'[f] = future[f]
              /\ (UnitState(f) # "Succeeded" /\ UnitState(f)' = "Succeeded")
                 => /\ future'[f].result = OutputFile(f)
                    /\ CompletelyWritten(output_dir', f)
              /\ \A w \in Workers :
                    (worker'[w].file = f /\ worker[w].file # f)
                    => UnitState(f) = "Pending"
        /\ Cardinality({f \in DOMAIN future : UnitState(f)' # UnitState(f)}) <= 1
      ]_vars

\* C24's case: with two workers, one unit has Succeeded and another has
\* Failed while a worker is idle again
C24_Witness ==
    /\ num_workers = 2
    /\ \E f, g \in DOMAIN future :
          /\ UnitState(f) = "Succeeded"
          /\ UnitState(g) = "Failed"
          /\ CompletelyWritten(output_dir, f)
    /\ pc = "as_completed"
----------------------------------------------------------------------------
(* Claims about the geometry of map features, under SpecFeature *)

\* the geometry points the variant is encoded from, in order
SourcePoints(feature_data, v) ==
    CASE v \in {"lane", "road_line", "road_edge"} -> Get(feature_data, "polyline", <<>>)
      [] v = "stop_sign" ->
            IF "position" \in DOMAIN feature_data
            THEN <<feature_data.position>> ELSE <<>>
      [] v = "crosswalk" -> Get(feature_data, "polygon", <<>>)

\* the points of the returned feature, in order
EncodedPoints(feature, v) ==
    CASE v \in {"lane", "road_line", "road_edge"} -> feature[v].polyline
      [] v = "stop_sign" ->
            IF "position" \in DOMAIN feature.stop_sign
            THEN <<feature.stop_sign.position>> ELSE <<>>
      [] v = "crosswalk" -> feature.crosswalk.polygon

\* x and y are the point's first two coordinates; z is set exactly when the
\* point has a third, and is that coordinate
EncodesPoint(encoded, point) ==
    /\ encoded.x = point[1]
    /\ encoded.y = point[2]
    /\ "z" \in DOMAIN encoded <=> Len(point) > 2
    /\ Len(point) > 2 => encoded.z = point[3]

\* C25: a classifiable feature whose geometry points (polyline points,
\* polygon points, the stop-sign position) have two or three coordinates is
\* always encoded: convert_map_feature does not raise, x and y are set, and
\* the elevation is set exactly for the points with a third coordinate.
C25_TwoCoordinateGeometryNeverAborts ==
    (pc = "done" /\ Classifiable(feature_in.feature_data))
    => /\ ~feature_out.raised
       /\ LET v == FirstMatch(feature_in.feature_data)
              source == SourcePoints(feature_in.feature_data, v)
              encoded == EncodedPoints(feature_out.value, v)
          IN  /\ Len(encoded) = Len(source)
              /\ \A i \in DOMAIN source : EncodesPoint(encoded[i], source[i])
----------------------------------------------------------------------------
(* postprocess_waymo: process_waymo.py *)

\* most scenarios handed to one call of postprocess_waymo
MaxScenarios == 2

\* the names bound in process_waymo.py's module namespace: its imports
\* (lines 1-11), logger (line 14) and its own functions
ModuleNames ==
    {"glob", "os", "pickle", "ProcessPoolExecutor", "as_completed", "List",
     "Optional", "tf", "tqdm", "get_logger", "build_waymo_example",
     "write_to_tfrecord", "logger", "process_pickle_file", "process_directory",
     "merge_tfrecord_files", "postprocess_waymo", "process_unified_to_waymo"}

\* evaluating a global name that is not bound raises NameError
NameRaises(name) == name \notin ModuleNames

\* a scenario of the list: its id, and what convert_func and
\* build_waymo_example do on it
PostScenarios ==
    [id : {"s1", "s2"}, convert : {"ok", "raises"}, build : {"ok", "raises"}]

\* os.path.join(tfrecord_dir, f"{scenario_id}.tfrecord")
ScenarioFile(scenario_id) == <<scenario_id, "tfrecord">>

\* one round of the loop of lines 149-167: the try block runs up to the
\* first call or name lookup that raises; both branches advance pbar
PostprocessScenario ==
    /\ pc = "postprocess"
    /\ post_i <= Len(scenarios)
    /\ LET sc == scenarios[post_i]
           raises == \/ sc.convert = "raises"
                     \/ NameRaises("SD")
                     \/ sc.build = "raises"
       IN  IF raises
           THEN /\ logged' = Append(logged, <<"Error processing scenario", post_i>>)
                /\ UNCHANGED output_dir
           ELSE /\ output_dir' = Put(output_dir, ScenarioFile(sc.id),
                                     << <<sc.id, "message">> >>)
                /\ UNCHANGED logged
    /\ pbar' = pbar + 1
    /\ post_i' = post_i + 1
    /\ UNCHANGED <<entry, merged_filename, pc, input_dir, scenario,
                   file_pattern, num_workers, hashseed, pickle_files, queue,
                   future, worker, yielded, output_files, ret, mergeVars,
                   idVars, scenario_data, run, waymo_scenario, warnings,
                   track_in, track_out, feature_in, feature_out, mapper_in,
                   mapper_out, unit_ret, scenarios>>

\* the list is exhausted: postprocess_waymo returns
PostprocessReturn ==
    /\ pc = "postprocess"
    /\ post_i > Len(scenarios)
    /\ pc' = "done"
    /\ UNCHANGED <<entry, merged_filename, output_dir, batchVars, mergeVars,
                   idVars, exportVars>>

\* postprocess_waymo(output_path, ..., scenarios, convert_func, ..., pbar):
\* <output_path>/tfrecord has been made and is empty
InitPostprocess ==
    /\ entry = "postprocess_waymo"
    /\ pc = "postprocess"
    /\ scenarios \in SeqsUpTo(PostScenarios, MaxScenarios)
    /\ post_i = 1
    /\ logged = <<>>
    /\ output_dir = <<>>
    /\ merged_filename = None
    /\ hashseed = [p \in Processes |-> MaxSalt]
    /\ scenario_data = <<>>
    /\ run = 0
    /\ waymo_scenario = <<>>
    /\ warnings = <<>>
    /\ track_in = <<>>
    /\ track_out = <<>>
    /\ feature_in = <<>>
    /\ feature_out = <<>>
    /\ mapper_in = <<>>
    /\ mapper_out = <<>>
    /\ unit_ret = <<>>
    /\ BatchIdle /\ MergeIdle /\ IdIdle

NextPostprocess == PostprocessScenario \/ PostprocessReturn

SpecPostprocess == InitPostprocess /\ [][NextPostprocess]_vars

----------------------------------------------------------------------------
(* Claims about postprocess_waymo, under SpecPostprocess *)

\* the scenarios whose convert_func and export succeed, and the others
Succeeding == {i \in DOMAIN scenarios :
                  scenarios[i].convert = "ok" /\ scenarios[i].build = "ok"}
Failing == DOMAIN scenarios \ Succeeding

\* C26: when postprocess_waymo returns, the output directory holds one file
\* <scenario id>.tfrecord of one record for every scenario whose conversion
\* and export succeed and no other file, every failing scenario has been
\* logged and the ones after it processed, and pbar has been advanced once
\* per scenario.
C26_OrchestrationOutput ==
    pc = "done"
    => /\ DOMAIN output_dir = {ScenarioFile(scenarios[i].id) : i \in Succeeding}
       /\ \A n \in DOMAIN output_dir : Len(output_dir[n]) = 1
       /\ {logged[k][2] : k \in DOMAIN logged} = Failing
       /\ Len(logged) = Cardinality(Failing)
       /\ pbar = Len(scenarios)
----------------------------------------------------------------------------
(* Claims about the order of export and merge, under SpecPipeline *)

\* merge_tfrecord_files has been called
MergeStarted == pc \in {"merge_glob", "merge_loop"} \/ merge_i >= 1

\* a merged file name was given and is not the empty string
NameGiven == merged_filename \notin {None, <<>>}

\* C27: merge_tfrecord_files is called only once every discovered file's
\* unit is Succeeded or Failed, the pool's queue is empty and no worker is
\* in a call (so none is writing a sub-file); and when
\* process_unified_to_waymo is over the merge has run if and only if a
\* non-empty merged file name was given.
C27_MergeAfterExport ==
    /\ MergeStarted
       => /\ DOMAIN future = Discovered
          /\ \A f \in Discovered : Terminal(f)
          /\ queue = <<>>
          /\ \A w \in Workers : worker[w] = Idle
          /\ NameGiven
    /\ pc = "done" => (MergeStarted <=> NameGiven)

\* C27's case: the merge is reading the sub-files after one unit Succeeded
\* and one Failed on two workers
C27_Witness ==
    /\ pc = "merge_loop"
    /\ num_workers = 2
    /\ Len(merged) = 1
    /\ \E f, g \in DOMAIN future :
          UnitState(f) = "Succeeded" /\ UnitState(g) = "Failed"
----------------------------------------------------------------------------
(* Claims about the merged file's content, under SpecPipeline *)

\* the record was written in this run by a unit that Succeeded
WrittenThisRun(record) ==
    \E f \in DOMAIN future, w \in Workers :
        /\ UnitState(f) = "Succeeded"
        /\ record = Export(f, scenario[f], hashseed[w])

\* C28: whatever earlier runs left in <output_dir>/temp, the merged file
\* written by this run of process_unified_to_waymo holds only records
\* written by the units that Succeeded in this run.
C28_MergedContentIsCurrentRun ==
    (entry = "process_unified_to_waymo" /\ pc = "done" /\ MergeStarted)
    => \A k \in DOMAIN merged : WrittenThisRun(merged[k])

====
